---- MODULE Spec2Model ----
(***************************************************************************)
(* Model of the PO reconciler: the reconciliation engine                   *)
(* (src/src/reconcile/reconcile.js) and the number parsing it imports, the *)
(* column detector (detector.js), the header locator (parser.js) and the   *)
(* credit note generator (creditnote.js).                                  *)
(*                                                                         *)
(* Cell text is a sequence of one-character strings, so that trimming,     *)
(* upper-casing, prefix tests and number parsing are computed on the text. *)
(* Numbers are integers counting thousandths of a currency unit (mills):   *)
(* 9.99 is 9990.  A nullable number is <<>> (null) or <<n>>.               *)
(***************************************************************************)
EXTENDS Integers, Sequences, FiniteSets, TLC

VARIABLES
    poData,     \* the PO table handed to reconcile: its rows
    erpData,    \* the ERP table handed to reconcile: its rows
    tolerance,  \* the tolerance handed to reconcile, in mills
    clock,      \* the wall clock read by new Date(); also the number of runs
    erpMap,     \* reconcile's erpMap as the last run left it
    results,    \* what the last run returned: <<>> or <<[summary, rows]>>
    credit,     \* what generateCreditNote returned for results: <<>> or <<note>>
    headers,    \* the header list handed to detectColumns
    columns,    \* what detectColumns returned: <<>> or <<roles>>
    file,       \* the file handed to parseFile: its extension and raw rows
    parsed,     \* how parseFile ended: <<>>, or <<a table or an error>>
    pct,        \* two prices under comparison and their diff and pctDiff
    pane        \* the task pane: its state object, its controls, its pending
                \* uploads and the arguments of its calls of reconcile

vars == <<poData, erpData, tolerance, clock, erpMap, results, credit,
          headers, columns, file, parsed, pct, pane>>

----------------------------------------------------------------------------
(* Bounds of the model *)

\* the most rows the PO table and the ERP table hold together
MaxRows == 4

\* the most times reconcile is run on the same inputs
MaxRuns == 2

----------------------------------------------------------------------------
(* Nullable numbers and text helpers *)

Null == <<>>

Num(n) == <<n>>

IsNull(x) == x = <<>>

Val(x) == x[1]

Abs(n) == IF n < 0 THEN -n ELSE n

\* the characters \s matches among those the cells of the model use
WhiteSpace == {" "}

Digits == {"0", "1", "2", "3", "4", "5", "6", "7", "8", "9"}

DigitValue(c) ==
    CASE c = "0" -> 0 [] c = "1" -> 1 [] c = "2" -> 2 [] c = "3" -> 3
      [] c = "4" -> 4 [] c = "5" -> 5 [] c = "6" -> 6 [] c = "7" -> 7
      [] c = "8" -> 8 [] c = "9" -> 9

RECURSIVE TrimStart(_)
TrimStart(s) ==
    IF s # <<>> /\ Head(s) \in WhiteSpace THEN TrimStart(Tail(s)) ELSE s

RECURSIVE TrimEnd(_)
TrimEnd(s) ==
    IF s # <<>> /\ s[Len(s)] \in WhiteSpace
    THEN TrimEnd(SubSeq(s, 1, Len(s) - 1))
    ELSE s

\* String.prototype.trim
Trim(s) == TrimEnd(TrimStart(s))

UpperChar(c) ==
    CASE c = "a" -> "A" [] c = "b" -> "B" [] c = "v" -> "V" [] OTHER -> c

\* String.prototype.toUpperCase
ToUpperCase(s) == [i \in 1..Len(s) |-> UpperChar(s[i])]

\* String.prototype.startsWith
StartsWith(s, p) == Len(p) <= Len(s) /\ SubSeq(s, 1, Len(p)) = p

RECURSIVE DigitPrefix(_)
DigitPrefix(s) ==
    IF s # <<>> /\ Head(s) \in Digits
    THEN <<Head(s)>> \o DigitPrefix(Tail(s))
    ELSE <<>>

RECURSIVE IntValue(_)
IntValue(ds) ==
    IF ds = <<>> THEN 0
    ELSE 10 * IntValue(SubSeq(ds, 1, Len(ds) - 1)) + DigitValue(ds[Len(ds)])

\* the value in mills of the fraction digits ds (digits after the third are
\* below the unit of the model and dropped; no cell of the model has any)
FracMills(ds) ==
    (IF Len(ds) >= 1 THEN 100 * DigitValue(ds[1]) ELSE 0)
    + (IF Len(ds) >= 2 THEN 10 * DigitValue(ds[2]) ELSE 0)
    + (IF Len(ds) >= 3 THEN DigitValue(ds[3]) ELSE 0)

\* parseFloat: the longest prefix that is a decimal literal (sign, digits,
\* fraction), NaN (here Null) when there is none. Exponents and "Infinity"
\* need letters no cell of the model has.
\* the digits of the fraction that follows the integer digits ip of body
FractionDigits(body, ip) ==
    IF Len(body) > Len(ip) /\ body[Len(ip) + 1] = "."
    THEN DigitPrefix(SubSeq(body, Len(ip) + 2, Len(body)))
    ELSE <<>>

\* the number of the integer digits ip and the fraction digits fp
DecimalValue(negative, ip, fp) ==
    IF ip = <<>> /\ fp = <<>> THEN Null
    ELSE IF negative THEN Num(-(1000 * IntValue(ip) + FracMills(fp)))
    ELSE Num(1000 * IntValue(ip) + FracMills(fp))

UnsignedValue(negative, body, ip) ==
    DecimalValue(negative, ip, FractionDigits(body, ip))

SignedValue(s) ==
    IF s # <<>> /\ Head(s) \in {"+", "-"}
    THEN UnsignedValue(Head(s) = "-", Tail(s), DigitPrefix(Tail(s)))
    ELSE UnsignedValue(FALSE, s, DigitPrefix(s))

parseFloat(str) == SignedValue(TrimStart(str))

\* the characters parseNumber strips: /[$£€,\s]/g
StripChars == {"$", "£", "€", ","} \cup WhiteSpace

NotStripped(c) == c \notin StripChars

\* isNaN(num) ? null : -num
Negated(num) == IF IsNull(num) THEN Null ELSE Num(-Val(num))

\* parseNumber after the symbols were stripped
ParseCleaned(cleaned) ==
    IF cleaned = <<>> THEN Null
    ELSE IF Len(cleaned) >= 3 /\ cleaned[1] = "(" /\ cleaned[Len(cleaned)] = ")"
    THEN Negated(parseFloat(SubSeq(cleaned, 2, Len(cleaned) - 1)))
    ELSE parseFloat(cleaned)

parseNumber(value) ==
    IF value = <<>> THEN Null
    ELSE ParseCleaned(Trim(SelectSeq(value, NotStripped)))

\* round: Math.round(n * 100) / 100, the nearest cent with halves rounded up
round(n) == 10 * ((n + 5) \div 10)

\* the number 1, in thousandths as every number of the model
One == 1000

normalizeSku(sku) == ToUpperCase(Trim(sku))

----------------------------------------------------------------------------
(* The inputs of reconcile *)

\* The column roles: the header of the SKU column, of the price column and,
\* in the PO, of the quantity column. No name role is resolved and the ERP
\* table has no qty role (poColumns.name, erpColumns.name and erpColumns.qty
\* are null), so every name is "" and every ERP quantity is 1.
poColumns == [sku |-> "Item #", price |-> "Price", qty |-> "Unit Qty"]

erpColumns == [sku |-> "SKU", price |-> "Unit Price"]

PoRow(sku, price, qty) ==
    [c \in {poColumns.sku, poColumns.price, poColumns.qty} |->
        IF c = poColumns.sku THEN sku
        ELSE IF c = poColumns.price THEN price
        ELSE qty]

ErpRow(sku, price) == [c \in {erpColumns.sku, erpColumns.price} |->
                         IF c = erpColumns.sku THEN sku ELSE price]

\* The rows a PO table of the model is made of: a row without SKU, the core
\* number "1" at 10.00 and with a non-numeric price, the full SKU " 1a" (to
\* be trimmed and upper-cased) at 9.48, and "2", which no ERP row carries.
\* Their quantities are 3, 2, 0.3, a quantity 0 and an empty cell.
PoRowPool ==
    {PoRow(<<>>, <<"1", "0", ".", "0", "0">>, <<>>),
     PoRow(<<"1">>, <<"1", "0", ".", "0", "0">>, <<"3">>),
     PoRow(<<"1">>, <<"N", "/", "A">>, <<"2">>),
     PoRow(<<" ", "1", "a">>, <<"9", ".", "4", "8">>, <<"0", ".", "3">>),
     PoRow(<<"2">>, <<"1", "0", ".", "0", "0">>, <<"0">>)}

\* The rows an ERP table of the model is made of: a row without SKU, "1" at
\* 9.99, its variant "1A" at 9.99 and with an empty price, and its variant
\* "1b" at $10.004.
ErpRowPool ==
    {ErpRow(<<>>, <<"9", ".", "9", "9">>),
     ErpRow(<<"1">>, <<"9", ".", "9", "9">>),
     ErpRow(<<"1", "A">>, <<"9", ".", "9", "9">>),
     ErpRow(<<"1", "A">>, <<>>),
     ErpRow(<<"1", "b">>, <<"$", "1", "0", ".", "0", "0", "4">>)}

\* The tolerances of the model: strict matching, 0.01, and the default 0.02
Tolerances == {0, 10, 20}

----------------------------------------------------------------------------
(* reconcile: the ERP index *)

\* erpMap is a Map: its entries in insertion order, each with its key
MapHas(map, key) == \E i \in 1..Len(map) : map[i].sku = key

MapIndex(map, key) == CHOOSE i \in 1..Len(map) : map[i].sku = key

\* a set that leaves the entry of an existing key as it was
MapSet_KeepFirst(map, key, entry) ==
    IF MapHas(map, key) THEN map ELSE Append(map, entry)

\* Map.prototype.set: an existing key keeps its place
MapSet(map, key, entry) ==
    IF MapHas(map, key)
    THEN [map EXCEPT ![MapIndex(map, key)] = entry]
    ELSE Append(map, entry)

\* the entry stored for one ERP row
ErpEntry(row, normSku) ==
    [sku |-> normSku,
     price |-> parseNumber(row[erpColumns.price]),
     name |-> <<>>,
     qty |-> One,
     originalRow |-> row,
     matched |-> FALSE]

\* IsBlank without the test: no row is skipped
IsBlank_Never(rawSku) == FALSE

\* !rawSku: the SKU cell is the empty string
IsBlank(rawSku) == rawSku = <<>>

\* the body of the loop over erpData.rows for a row of key normSku
ErpPut(acc, row, normSku) ==
    [map |-> MapSet(acc.map, normSku, ErpEntry(row, normSku)),
     dups |-> IF MapHas(acc.map, normSku)
              THEN acc.dups \cup {normSku}
              ELSE acc.dups]

\* one iteration of the loop over erpData.rows
ErpStep(acc, row) ==
    IF IsBlank(row[erpColumns.sku]) THEN acc
    ELSE ErpPut(acc, row, normalizeSku(row[erpColumns.sku]))

RECURSIVE BuildErpFrom(_, _, _)
BuildErpFrom(rows, i, acc) ==
    IF i > Len(rows) THEN acc
    ELSE BuildErpFrom(rows, i + 1, ErpStep(acc, rows[i]))

\* the erpMap and erpDuplicates reconcile builds from the ERP rows
BuildErpMap(rows) == BuildErpFrom(rows, 1, [map |-> <<>>, dups |-> {}])

\* poDuplicates: the normalized PO SKUs that occur more than once
PoDuplicates(rows) ==
    {normalizeSku(rows[i][poColumns.sku]) :
        i \in {j \in 1..Len(rows) :
                  /\ ~IsBlank(rows[j][poColumns.sku])
                  /\ Cardinality({k \in 1..Len(rows) :
                        /\ ~IsBlank(rows[k][poColumns.sku])
                        /\ normalizeSku(rows[k][poColumns.sku])
                             = normalizeSku(rows[j][poColumns.sku])}) > 1}}

\* IsPrefixEntry matching in both directions
IsPrefixEntry_EitherWay(normPoSku, e) ==
    /\ e.sku # normPoSku
    /\ StartsWith(e.sku, normPoSku) \/ StartsWith(normPoSku, e.sku)

IsPrefixEntry(normPoSku, e) == StartsWith(e.sku, normPoSku) /\ e.sku # normPoSku

\* findPrefixMatches: the entries whose key strictly extends normPoSku, in
\* the map's order
RECURSIVE PrefixMatchesFrom(_, _, _)
PrefixMatchesFrom(normPoSku, map, i) ==
    IF i > Len(map) THEN <<>>
    ELSE IF IsPrefixEntry(normPoSku, map[i])
    THEN <<map[i]>> \o PrefixMatchesFrom(normPoSku, map, i + 1)
    ELSE PrefixMatchesFrom(normPoSku, map, i + 1)

\* findPrefixMatches that finds no entry
findPrefixMatches_None(normPoSku, map) == <<>>

findPrefixMatches(normPoSku, map) == PrefixMatchesFrom(normPoSku, map, 1)

RECURSIVE denormalizeFrom(_, _, _, _)
denormalizeFrom(normSku, rows, skuColumn, i) ==
    IF i > Len(rows) THEN normSku
    ELSE IF normalizeSku(rows[i][skuColumn]) = normSku THEN rows[i][skuColumn]
    ELSE denormalizeFrom(normSku, rows, skuColumn, i + 1)

\* denormalizeSku: the SKU text of the first row that normalizes to normSku
denormalizeSku(normSku, rows, skuColumn) == denormalizeFrom(normSku, rows, skuColumn, 1)

\* Array.prototype.join(", ")
RECURSIVE JoinSkus(_)
JoinSkus(entries) ==
    IF entries = <<>> THEN <<>>
    ELSE IF Len(entries) = 1 THEN entries[1].sku
    ELSE entries[1].sku \o <<",", " ">> \o JoinSkus(Tail(entries))

----------------------------------------------------------------------------
(* reconcile: the loop over the PO rows *)

\* parseNumber(...) || 1: the quantity of a row, 1 for a cell that is empty,
\* not numeric or 0
QtyOrOne(num) == IF IsNull(num) \/ Val(num) = 0 THEN One ELSE Val(num)

\* round(poPrice * poQty): the product of two numbers in thousandths, rounded
\* to the cent
LineTotal(poPrice, poQty) == 10 * ((poPrice * poQty + 5000) \div 10000)

\* an action text without a list of SKUs
Action(text) == [text |-> text, skus |-> <<>>]

\* FreshLocals declared outside the function: a run starts from the rows and
\* the counters the run before it left
FreshLocals_Carried ==
    IF results = <<>>
    THEN [rows |-> <<>>, matches |-> 0, tolerances |-> 0, exceptions |-> 0,
          exposure |-> 0, warnings |-> 0]
    ELSE [rows |-> results[1].rows,
          matches |-> results[1].summary.matches,
          tolerances |-> results[1].summary.tolerances,
          exceptions |-> results[1].summary.exceptions,
          exposure |-> results[1].summary.exposure,
          warnings |-> results[1].summary.warnings]

\* the locals reconcile declares before the loop: resultRows and the counters
FreshLocals ==
    [rows |-> <<>>, matches |-> 0, tolerances |-> 0, exceptions |-> 0,
     exposure |-> 0, warnings |-> 0]

\* the row pushed for a PO row whose price is not numeric
NonNumericRow(rawSku, poQty, isDuplicate) ==
    [status |-> "Warning", sku |-> rawSku, erpSku |-> Null, name |-> <<>>,
     erpPrice |-> Null, poPrice |-> Null, diff |-> Null, pctDiff |-> Null,
     action |-> Action("Non-numeric price - skipped"),
     duplicate |-> isDuplicate, poQty |-> Num(poQty), erpQty |-> Null,
     lineTotal |-> Null]

\* the row pushed for a PO row that several ERP SKUs extend
AmbiguousRow(rawSku, poPrice, poQty, prefixMatches, isDuplicate) ==
    [status |-> "Warning", sku |-> rawSku, erpSku |-> Null, name |-> <<>>,
     erpPrice |-> Null, poPrice |-> Num(poPrice), diff |-> Null, pctDiff |-> Null,
     action |-> [text |-> "Multiple ERP matches: ", skus |-> JoinSkus(prefixMatches)],
     duplicate |-> isDuplicate, poQty |-> Num(poQty), erpQty |-> Null,
     lineTotal |-> Num(LineTotal(poPrice, poQty))]

\* the row pushed for a PO row without any ERP entry
NotInErpRow(rawSku, poPrice, poQty, isDuplicate) ==
    [status |-> "Not in ERP", sku |-> rawSku, erpSku |-> Null, name |-> <<>>,
     erpPrice |-> Null, poPrice |-> Num(poPrice), diff |-> Null, pctDiff |-> Null,
     action |-> Action("Review - SKU not found in ERP"),
     duplicate |-> isDuplicate, poQty |-> Num(poQty), erpQty |-> Null,
     lineTotal |-> Num(LineTotal(poPrice, poQty))]

\* the row pushed for a match whose ERP price is not numeric
NonNumericErpRow(rawSku, poPrice, poQty, oracle, isDuplicate) ==
    [status |-> "Warning", sku |-> rawSku, erpSku |-> Null, name |-> oracle.name,
     erpPrice |-> Null, poPrice |-> Num(poPrice), diff |-> Null, pctDiff |-> Null,
     action |-> Action("Non-numeric ERP price"),
     duplicate |-> isDuplicate, poQty |-> Num(poQty), erpQty |-> Num(oracle.qty),
     lineTotal |-> Num(LineTotal(poPrice, poQty))]

\* Math.round(x) for the quotient x = num / den: the nearest integer, halves up
RoundQuotient(num, den) ==
    IF den > 0 THEN (2 * num + den) \div (2 * den)
    ELSE (-(2 * num) - den) \div (-(2 * den))

\* pctDiff rounded to a whole percent
PctDiff_Whole(diff, price) ==
    IF price # 0 THEN 100 * RoundQuotient(diff * 100, price)
    ELSE IF diff # 0 THEN 10000 ELSE 0

\* pctDiff: round((diff / price) * 100), a percentage with two decimals, here
\* in hundredths of a percent
PctDiff(diff, price) ==
    IF price # 0 THEN RoundQuotient(diff * 10000, price)
    ELSE IF diff # 0 THEN 10000 ELSE 0

\* Classify with the tolerance bound exclusive
Classify_Exclusive(absDiff, tol) ==
    IF absDiff = 0 THEN "Match"
    ELSE IF absDiff < tol THEN "Tolerance"
    ELSE "Exception"

\* the status of a compared row
Classify(absDiff, tol) ==
    IF absDiff = 0 THEN "Match"
    ELSE IF absDiff <= tol THEN "Tolerance"
    ELSE "Exception"

ClassifiedAction(status, matchType) ==
    IF status = "Match"
    THEN (IF matchType = "prefix" THEN Action("OK (prefix match)") ELSE Action("OK"))
    ELSE IF status = "Tolerance" THEN Action("OK - within tolerance")
    ELSE Action("Review pricing")

\* the row pushed for a match with two numeric prices
ComparedRow(rawSku, normSku, poPrice, poQty, oracle, matchType, status, diff, map, erpRows, isDuplicate) ==
    [status |-> status, sku |-> rawSku,
     erpSku |-> IF matchType = "prefix"
                THEN denormalizeSku(findPrefixMatches(normSku, map)[1].sku,
                                    erpRows, erpColumns.sku)
                ELSE Null,
     name |-> oracle.name,
     erpPrice |-> oracle.price, poPrice |-> Num(poPrice),
     diff |-> Num(diff), pctDiff |-> Num(PctDiff(diff, Val(oracle.price))),
     action |-> ClassifiedAction(status, matchType),
     duplicate |-> isDuplicate, poQty |-> Num(poQty), erpQty |-> Num(oracle.qty),
     lineTotal |-> Num(LineTotal(poPrice, poQty))]

\* MarkMatched that sets no flag
MarkMatched_Forgotten(map, key) == map

\* oracle.matched = true, on the entry of the map that oracle is
MarkMatched(map, key) == [map EXCEPT ![MapIndex(map, key)].matched = TRUE]

\* ExposureAfter that adds every non-zero difference
ExposureAfter_AnyDiff(exposure, status, absDiff) ==
    IF status # "Match" THEN exposure + absDiff ELSE exposure

\* the running exposure after a compared row: exposure += absDiff in the
\* Exception branch only
ExposureAfter(exposure, status, absDiff) ==
    IF status = "Exception" THEN exposure + absDiff ELSE exposure

\* ComparedStep that counts a Tolerance row as a match
ComparedStep_ToleranceAsMatch(acc, status, absDiff, row) ==
    [acc EXCEPT !.matches = IF status \in {"Match", "Tolerance"} THEN @ + 1 ELSE @,
                !.exceptions = IF status = "Exception" THEN @ + 1 ELSE @,
                !.exposure = ExposureAfter(@, status, absDiff),
                !.rows = Append(@, row)]

\* the end of an iteration that compared two numeric prices
ComparedStep(acc, status, absDiff, row) ==
    [acc EXCEPT !.matches = IF status = "Match" THEN @ + 1 ELSE @,
                !.tolerances = IF status = "Tolerance" THEN @ + 1 ELSE @,
                !.exceptions = IF status = "Exception" THEN @ + 1 ELSE @,
                !.exposure = ExposureAfter(@, status, absDiff),
                !.rows = Append(@, row)]

\* the part of an iteration from diff on
DiffStep(acc, rawSku, normSku, poPrice, poQty, oracle, matchType, diff, status, erpRows, isDuplicate) ==
    ComparedStep(acc, status, Abs(diff),
                 ComparedRow(rawSku, normSku, poPrice, poQty, oracle, matchType, status,
                             diff, acc.map, erpRows, isDuplicate))

\* the part of an iteration after oracle.matched = true
PriceStep(acc, rawSku, normSku, poPrice, poQty, oracle, matchType, diff, tol, erpRows, isDuplicate) ==
    IF IsNull(oracle.price)
    THEN [acc EXCEPT !.warnings = @ + 1,
                     !.rows = Append(@, NonNumericErpRow(rawSku, poPrice, poQty, oracle, isDuplicate))]
    ELSE DiffStep(acc, rawSku, normSku, poPrice, poQty, oracle, matchType, diff,
                  Classify(Abs(diff), tol), erpRows, isDuplicate)

\* MatchedStep that marks the entry only when its price is numeric
MatchedStep_PriceFirst(acc, rawSku, normSku, poPrice, poQty, oracle, matchType, tol, erpRows, isDuplicate) ==
    PriceStep(IF IsNull(oracle.price) THEN acc
              ELSE [acc EXCEPT !.map = MarkMatched(@, oracle.sku)],
              rawSku, normSku, poPrice, poQty, oracle, matchType,
              IF IsNull(oracle.price) THEN 0 ELSE round(poPrice - Val(oracle.price)),
              tol, erpRows, isDuplicate)

\* the part of an iteration after an ERP entry (oracle) was found
MatchedStep(acc, rawSku, normSku, poPrice, poQty, oracle, matchType, tol, erpRows, isDuplicate) ==
    PriceStep([acc EXCEPT !.map = MarkMatched(@, oracle.sku)],
              rawSku, normSku, poPrice, poQty, oracle, matchType,
              IF IsNull(oracle.price) THEN 0 ELSE round(poPrice - Val(oracle.price)),
              tol, erpRows, isDuplicate)

\* Lookup that takes the first of several prefix matches
Lookup_FirstCandidate(map, normSku) ==
    LET prefixMatches == findPrefixMatches(normSku, map)
    IN  IF MapHas(map, normSku)
        THEN [matchType |-> "exact", oracle |-> <<map[MapIndex(map, normSku)]>>,
              prefixMatches |-> <<>>]
        ELSE IF Len(prefixMatches) >= 1
        THEN [matchType |-> "prefix", oracle |-> <<prefixMatches[1]>>,
              prefixMatches |-> prefixMatches]
        ELSE [matchType |-> "none", oracle |-> <<>>, prefixMatches |-> <<>>]

\* Lookup that tries the prefix matches before the exact match
Lookup_PrefixFirst(map, normSku) ==
    LET prefixMatches == findPrefixMatches(normSku, map)
    IN  IF Len(prefixMatches) = 1
        THEN [matchType |-> "prefix", oracle |-> <<prefixMatches[1]>>,
              prefixMatches |-> prefixMatches]
        ELSE IF Len(prefixMatches) > 1
        THEN [matchType |-> "ambiguous", oracle |-> <<>>, prefixMatches |-> prefixMatches]
        ELSE IF MapHas(map, normSku)
        THEN [matchType |-> "exact", oracle |-> <<map[MapIndex(map, normSku)]>>,
              prefixMatches |-> <<>>]
        ELSE [matchType |-> "none", oracle |-> <<>>, prefixMatches |-> <<>>]

\* the outcome of the match step for the prefix matches found
LookupAmong(map, normSku, prefixMatches) ==
    IF MapHas(map, normSku)
    THEN [matchType |-> "exact", oracle |-> <<map[MapIndex(map, normSku)]>>,
          prefixMatches |-> <<>>]
    ELSE IF Len(prefixMatches) = 1
    THEN [matchType |-> "prefix", oracle |-> <<prefixMatches[1]>>,
          prefixMatches |-> prefixMatches]
    ELSE IF Len(prefixMatches) > 1
    THEN [matchType |-> "ambiguous", oracle |-> <<>>, prefixMatches |-> prefixMatches]
    ELSE [matchType |-> "none", oracle |-> <<>>, prefixMatches |-> <<>>]

\* the match step: erpMap.get(normSku) first, then the prefix matches, of
\* which a single one is used and several are left for review
Lookup(map, normSku) == LookupAmong(map, normSku, findPrefixMatches(normSku, map))

\* an iteration for a row with a SKU, from the price test on
FoundStep(acc, rawSku, normSku, poPrice, poQty, isDuplicate, found, tol, erpRows) ==
    IF IsNull(poPrice)
    THEN [acc EXCEPT !.warnings = @ + 1,
                     !.rows = Append(@, NonNumericRow(rawSku, poQty, isDuplicate))]
    ELSE IF found.matchType = "ambiguous"
    THEN [acc EXCEPT !.warnings = @ + 1,
                     !.rows = Append(@, AmbiguousRow(rawSku, Val(poPrice), poQty,
                                                     found.prefixMatches, isDuplicate))]
    ELSE IF found.matchType = "none"
    THEN [acc EXCEPT !.exceptions = @ + 1,
                     !.rows = Append(@, NotInErpRow(rawSku, Val(poPrice), poQty, isDuplicate))]
    ELSE MatchedStep(acc, rawSku, normSku, Val(poPrice), poQty, found.oracle[1],
                     found.matchType, tol, erpRows, isDuplicate)

\* an iteration for a row with the SKU rawSku
SkuStep(acc, rawSku, normSku, poPrice, poQty, tol, erpRows, erpDuplicates, poDuplicates) ==
    FoundStep(acc, rawSku, normSku, poPrice, poQty,
              normSku \in poDuplicates \/ normSku \in erpDuplicates,
              Lookup(acc.map, normSku), tol, erpRows)

\* one iteration of the loop over poData.rows
PoStep(acc, row, tol, erpRows, erpDuplicates, poDuplicates) ==
    IF IsBlank(row[poColumns.sku]) THEN acc
    ELSE SkuStep(acc, row[poColumns.sku], normalizeSku(row[poColumns.sku]),
                 parseNumber(row[poColumns.price]),
                 QtyOrOne(parseNumber(row[poColumns.qty])), tol, erpRows,
                 erpDuplicates, poDuplicates)

RECURSIVE ProcessPoFrom(_, _, _, _, _, _, _)
ProcessPoFrom(rows, i, acc, tol, erpRows, erpDuplicates, poDuplicates) ==
    IF i > Len(rows) THEN acc
    ELSE ProcessPoFrom(rows, i + 1,
                       PoStep(acc, rows[i], tol, erpRows, erpDuplicates, poDuplicates),
                       tol, erpRows, erpDuplicates, poDuplicates)

----------------------------------------------------------------------------
(* reconcile: the unmatched ERP rows, the sort and the summary *)

\* the row pushed for an ERP entry no PO row matched
NotInPoRow(oracle, erpRows, erpDuplicates) ==
    [status |-> "Not in PO",
     sku |-> denormalizeSku(oracle.sku, erpRows, erpColumns.sku),
     erpSku |-> Null, name |-> oracle.name,
     erpPrice |-> oracle.price, poPrice |-> Null, diff |-> Null, pctDiff |-> Null,
     action |-> Action("Review - SKU not in PO"),
     duplicate |-> oracle.sku \in erpDuplicates,
     poQty |-> Null, erpQty |-> Num(oracle.qty), lineTotal |-> Null]

\* whether the loop over the map skips this entry
SweepSkips(oracle) == oracle.matched

RECURSIVE SweepFrom(_, _, _, _, _)
SweepFrom(map, i, rows, erpRows, erpDuplicates) ==
    IF i > Len(map) THEN rows
    ELSE SweepFrom(map, i + 1,
                   IF SweepSkips(map[i]) THEN rows
                   ELSE Append(rows, NotInPoRow(map[i], erpRows, erpDuplicates)),
                   erpRows, erpDuplicates)

statusOrder(status) ==
    CASE status = "Exception" -> 0
      [] status = "Not in ERP" -> 1
      [] status = "Not in PO" -> 2
      [] status = "Warning" -> 3
      [] status = "Tolerance" -> 4
      [] status = "Match" -> 5
      [] OTHER -> 99

\* |diff| as the comparator reads it: 0 for a row without diff
SortMagnitude(row) == IF IsNull(row.diff) THEN 0 ELSE Abs(Val(row.diff))

\* Compare with the differences ascending
Compare_Ascending(a, b) ==
    IF statusOrder(a.status) # statusOrder(b.status)
    THEN statusOrder(a.status) - statusOrder(b.status)
    ELSE SortMagnitude(a) - SortMagnitude(b)

\* the comparator given to resultRows.sort
Compare(a, b) ==
    IF statusOrder(a.status) # statusOrder(b.status)
    THEN statusOrder(a.status) - statusOrder(b.status)
    ELSE SortMagnitude(b) - SortMagnitude(a)

\* x put into the sorted s behind every row that does not come after it
RECURSIVE SortedInsert(_, _)
SortedInsert(s, x) ==
    IF s = <<>> THEN <<x>>
    ELSE IF Compare(s[Len(s)], x) <= 0 THEN Append(s, x)
    ELSE Append(SortedInsert(SubSeq(s, 1, Len(s) - 1), x), s[Len(s)])

\* Array.prototype.sort with that comparator: a stable sort
RECURSIVE SortRows(_)
SortRows(rows) ==
    IF rows = <<>> THEN <<>>
    ELSE SortedInsert(SortRows(SubSeq(rows, 1, Len(rows) - 1)), rows[Len(rows)])

\* Summary that counts the "Not in PO" rows as exceptions
Summary_CountingSweep(acc, resultRows, now) ==
    [total |-> Len(resultRows),
     matches |-> acc.matches,
     tolerances |-> acc.tolerances,
     exceptions |-> acc.exceptions
        + Cardinality({r \in 1..Len(resultRows) : resultRows[r].status = "Not in PO"}),
     exposure |-> round(acc.exposure),
     warnings |-> acc.warnings,
     timestamp |-> now]

\* the summary reconcile returns
Summary(acc, resultRows, now) ==
    [total |-> Len(resultRows),
     matches |-> acc.matches,
     tolerances |-> acc.tolerances,
     exceptions |-> acc.exceptions,
     exposure |-> round(acc.exposure),
     warnings |-> acc.warnings,
     timestamp |-> now]

\* the value reconcile returns, and the erpMap it leaves
Returned(acc, resultRows, now) ==
    [summary |-> Summary(acc, resultRows, now),
     rows |-> resultRows,
     erpMap |-> acc.map]

\* reconcile from the unmatched ERP rows on
AfterPoLoop(acc, erp, erpDuplicates, now) ==
    Returned(acc, SortRows(SweepFrom(acc.map, 1, acc.rows, erp, erpDuplicates)), now)

\* reconcile from the loop over the PO rows on
AfterIndex(locals, index, po, erp, tol, now) ==
    AfterPoLoop(ProcessPoFrom(po, 1, locals @@ [map |-> index.map], tol, erp,
                              index.dups, PoDuplicates(po)),
                erp, index.dups, now)

\* reconcile, its locals given
ReconcileFrom(locals, po, erp, tol, now) ==
    AfterIndex(locals, BuildErpMap(erp), po, erp, tol, now)

----------------------------------------------------------------------------
(* The state machine: reconcile is run on the loaded tables, and run again *)

\* no reconcile input is loaded
NoTables ==
    /\ poData = <<>>
    /\ erpData = <<>>
    /\ tolerance = 0
    /\ clock = 0
    /\ erpMap = <<>>
    /\ results = <<>>
    /\ credit = <<>>

\* no header list is under detection
NoHeaders ==
    /\ headers = <<>>
    /\ columns = <<>>

\* no file is being parsed
NoFile ==
    /\ file = [ext |-> "", sheets |-> <<>>]
    /\ parsed = <<>>

\* no prices are under comparison
NoPct == pct = <<>>

\* no task pane is open
NoPane == pane = <<>>

\* the caller keeps what reconcile returned
Return(out) ==
    /\ results' = <<[summary |-> out.summary, rows |-> out.rows]>>
    /\ erpMap' = out.erpMap

\* one call of reconcile({poData, poColumns, erpData, erpColumns, tolerance})
Reconcile ==
    /\ clock < MaxRuns
    /\ Return(ReconcileFrom(FreshLocals, poData, erpData, tolerance, clock + 1))
    /\ clock' = clock + 1
    /\ UNCHANGED <<poData, erpData, tolerance, credit, headers, columns, file,
                   parsed, pct, pane>>

Next == Reconcile

----------------------------------------------------------------------------
(* What the claims speak of, read off the inputs and the returned value *)

Done == results # <<>>

Rows == results[1].rows

Sum == results[1].summary

RowSet == 1..Len(Rows)

\* the PO rows with a non-empty SKU cell
PoIdx == {i \in 1..Len(poData) : poData[i][poColumns.sku] # <<>>}

PoSku(i) == poData[i][poColumns.sku]

PoNorm(i) == normalizeSku(PoSku(i))

PoPrice(i) == parseNumber(poData[i][poColumns.price])

\* the PO rows with the same SKU text and the same price as row i
Twins(i) == {j \in PoIdx : PoSku(j) = PoSku(i) /\ PoPrice(j) = PoPrice(i)}

ErpIdx == {j \in 1..Len(erpData) : erpData[j][erpColumns.sku] # <<>>}

ErpNorm(j) == normalizeSku(erpData[j][erpColumns.sku])

\* the distinct normalized ERP SKUs
ErpKeys == {ErpNorm(j) : j \in ErpIdx}

\* the price of the last ERP row of key k
ErpPriceOf(k) ==
    LET last == CHOOSE j \in ErpIdx :
                    ErpNorm(j) = k /\ \A h \in ErpIdx : ErpNorm(h) = k => h <= j
    IN  parseNumber(erpData[last][erpColumns.price])

ProperPrefix(p, k) ==
    /\ Len(p) < Len(k)
    /\ \A n \in 1..Len(p) : k[n] = p[n]

\* the ERP SKUs that strictly extend the normalized SKU of PO row i
Extensions(i) == {k \in ErpKeys : ProperPrefix(PoNorm(i), k)}

\* the ERP SKU that PO row i is matched to, as a set of at most one
MatchOf(i) ==
    IF i \notin PoIdx \/ PoPrice(i) = Null THEN {}
    ELSE IF PoNorm(i) \in ErpKeys THEN {PoNorm(i)}
    ELSE IF Cardinality(Extensions(i)) = 1 THEN Extensions(i)
    ELSE {}

MatchedKeys == UNION {MatchOf(i) : i \in PoIdx}

IsAmbiguous(i) ==
    /\ i \in PoIdx
    /\ PoPrice(i) # Null
    /\ PoNorm(i) \notin ErpKeys
    /\ Cardinality(Extensions(i)) >= 2

IsUnknown(i) ==
    /\ i \in PoIdx
    /\ PoPrice(i) # Null
    /\ PoNorm(i) \notin ErpKeys
    /\ Extensions(i) = {}

PoStatuses == {"Match", "Tolerance", "Exception", "Warning", "Not in ERP"}

\* the output rows of a status
RowsOf(status) == {r \in RowSet : Rows[r].status = status}

\* the output rows that carry the SKU text and the price of PO row i
RowsFor(i) ==
    {r \in RowSet : /\ Rows[r].status \in PoStatuses
                    /\ Rows[r].sku = PoSku(i)
                    /\ Rows[r].poPrice = PoPrice(i)}

\* whether sub occurs in s
Contains(s, sub) ==
    \E from \in 0..(Len(s) - Len(sub)) : SubSeq(s, from + 1, from + Len(sub)) = sub

RECURSIVE SumAbsDiff(_)
SumAbsDiff(R) ==
    IF R = {} THEN 0
    ELSE LET r == CHOOSE x \in R : TRUE
         IN  Abs(Val(Rows[r].diff)) + SumAbsDiff(R \ {r})

\* the status order and the classification as the specification words them
SpecStatusOrder(status) ==
    CASE status = "Exception" -> 0 [] status = "Not in ERP" -> 1
      [] status = "Not in PO" -> 2 [] status = "Warning" -> 3
      [] status = "Tolerance" -> 4 [] status = "Match" -> 5

SpecAbsDiff(row) == IF row.diff = Null THEN 0 ELSE Abs(Val(row.diff))

SpecClass(absDiff, tol) ==
    CASE absDiff = 0 -> "Match"
      [] absDiff > 0 /\ absDiff <= tol -> "Tolerance"
      [] absDiff > tol /\ absDiff > 0 -> "Exception"

----------------------------------------------------------------------------
(* The claims *)

\* C1: every PO row with a non-empty SKU cell produces exactly one output row,
\* of status Match, Tolerance, Exception, Warning or "Not in ERP"; a PO row
\* with an empty SKU cell produces none and is counted in no summary counter.
C1_OneRowPerPoRow ==
    Done =>
        /\ \A r \in RowSet : Rows[r].status \in PoStatuses \cup {"Not in PO"}
        /\ \A i \in PoIdx : Cardinality(RowsFor(i)) = Cardinality(Twins(i))
        /\ Cardinality({r \in RowSet : Rows[r].status \in PoStatuses}) = Cardinality(PoIdx)
        /\ \A r \in RowSet : Rows[r].sku # <<>>
        /\ Sum.matches + Sum.tolerances + Sum.exceptions + Sum.warnings = Cardinality(PoIdx)

C1_Witness ==
    /\ Done
    /\ \E i \in 1..Len(poData) : i \notin PoIdx
    /\ \E i \in PoIdx : MatchOf(i) # {}
    /\ \E i \in PoIdx : PoPrice(i) = Null

\* C2: summary.total is the number of output rows, the four counters add up
\* to at most the total, and the gap is the number of "Not in PO" rows.
C2_TotalAndGap ==
    Done =>
        /\ Sum.total = Len(Rows)
        /\ Sum.matches + Sum.tolerances + Sum.exceptions + Sum.warnings <= Sum.total
        /\ Sum.total - (Sum.matches + Sum.tolerances + Sum.exceptions + Sum.warnings)
             = Cardinality(RowsOf("Not in PO"))

C2_Witness ==
    /\ Done
    /\ RowsOf("Not in PO") # {}
    /\ RowsOf("Exception") # {}
    /\ RowsOf("Not in ERP") # {}

C4_Sorted ==
    Done =>
        \A r \in RowSet : r < Len(Rows) =>
            /\ SpecStatusOrder(Rows[r].status) <= SpecStatusOrder(Rows[r + 1].status)
            /\ Rows[r].status = Rows[r + 1].status
                  => SpecAbsDiff(Rows[r]) >= SpecAbsDiff(Rows[r + 1])

\* a later PO row with the larger difference was moved before an earlier one
C4_Witness ==
    /\ Done
    /\ \E r \in RowSet : /\ r < Len(Rows)
                         /\ Rows[r].status = "Exception"
                         /\ Rows[r + 1].status = "Exception"
                         /\ SpecAbsDiff(Rows[r]) > SpecAbsDiff(Rows[r + 1])
                         /\ \E i, j \in PoIdx : /\ i < j
                                                /\ r + 1 \in RowsFor(i)
                                                /\ r \in RowsFor(j)
                                                /\ RowsFor(i) \cap RowsFor(j) = {}

\* C5: a PO row with a numeric price, no exact ERP match and two or more ERP
\* SKUs extending its SKU yields one Warning row whose action lists every
\* candidate; it counts in warnings and marks no candidate as matched, so a
\* candidate that no other PO row matched is still reported "Not in PO".
C5_AmbiguousPrefix ==
    Done =>
        /\ \A i \in PoIdx : IsAmbiguous(i) =>
              /\ Cardinality(RowsFor(i)) = Cardinality(Twins(i))
              /\ \A r \in RowsFor(i) :
                    /\ Rows[r].status = "Warning"
                    /\ Rows[r].erpPrice = Null
                    /\ Rows[r].diff = Null
                    /\ Rows[r].action.text = "Multiple ERP matches: "
                    /\ \A k \in Extensions(i) : Contains(Rows[r].action.skus, k)
              /\ \A k \in Extensions(i) :
                    k \notin MatchedKeys =>
                        \E r \in RowsOf("Not in PO") : normalizeSku(Rows[r].sku) = k
        /\ Sum.warnings =
              Cardinality({i \in PoIdx :
                  \/ PoPrice(i) = Null
                  \/ IsAmbiguous(i)
                  \/ \E k \in MatchOf(i) : ErpPriceOf(k) = Null})

\* an ambiguous PO row, one candidate matched by another PO row, the other not
C5_Witness ==
    /\ Done
    /\ \E i \in PoIdx :
          /\ IsAmbiguous(i)
          /\ \E k \in Extensions(i) : k \in MatchedKeys
          /\ \E k \in Extensions(i) : k \notin MatchedKeys

\* C6: an exact match of the normalized SKU is preferred over prefix matches;
\* without an exact match, a single ERP SKU that extends the PO SKU is the
\* match; either way the row is classified by the price difference.
C6_ExactThenSinglePrefix ==
    Done =>
        \A i \in PoIdx : \A k \in MatchOf(i) :
            ErpPriceOf(k) # Null =>
                /\ Cardinality(RowsFor(i)) = Cardinality(Twins(i))
                /\ \A r \in RowsFor(i) :
                      /\ Rows[r].erpPrice = ErpPriceOf(k)
                      /\ Rows[r].diff = Num(round(Val(PoPrice(i)) - Val(ErpPriceOf(k))))
                      /\ Rows[r].status = SpecClass(Abs(Val(Rows[r].diff)), tolerance)

\* a PO row matched by its single extension with the status Match, beside a
\* PO row that has no match
C6_Witness ==
    /\ Done
    /\ \E i \in PoIdx : IsUnknown(i)
    /\ \E i \in PoIdx :
          /\ MatchOf(i) # {}
          /\ PoNorm(i) \notin ErpKeys
          /\ \A r \in RowsFor(i) : Rows[r].status = "Match" /\ Rows[r].diff = Num(0)

\* C7: a row compared on two numeric prices is Match iff the rounded
\* difference is 0, Tolerance iff 0 < |diff| <= tolerance, Exception iff
\* |diff| > tolerance; with tolerance 0 no row is Tolerance.
C7_Classification ==
    Done =>
        /\ \A r \in RowSet :
              Rows[r].status \in {"Match", "Tolerance", "Exception"} =>
                  /\ Rows[r].poPrice # Null /\ Rows[r].erpPrice # Null
                  /\ Rows[r].diff = Num(round(Val(Rows[r].poPrice) - Val(Rows[r].erpPrice)))
        /\ \A r \in RowSet :
              (Rows[r].poPrice # Null /\ Rows[r].erpPrice # Null) =>
                  LET absDiff == Abs(round(Val(Rows[r].poPrice) - Val(Rows[r].erpPrice)))
                  IN  /\ Rows[r].status = "Match" <=> absDiff = 0
                      /\ Rows[r].status = "Tolerance" <=> (0 < absDiff /\ absDiff <= tolerance)
                      /\ Rows[r].status = "Exception" <=> absDiff > tolerance
        /\ tolerance = 0 => RowsOf("Tolerance") = {}

\* a Tolerance row whose difference is the tolerance, and an Exception row
C7_Witness ==
    /\ Done
    /\ \E r \in RowsOf("Tolerance") : Abs(Val(Rows[r].diff)) = tolerance
    /\ RowsOf("Exception") # {}

\* C8: a PO row with a numeric price whose SKU neither is nor is extended by
\* an ERP SKU yields a "Not in ERP" row without erpPrice and diff, counts as
\* one exception and adds nothing to the exposure.
C8_NotInErp ==
    Done =>
        /\ \A i \in PoIdx : IsUnknown(i) =>
              /\ Cardinality(RowsFor(i)) = Cardinality(Twins(i))
              /\ \A r \in RowsFor(i) :
                    /\ Rows[r].status = "Not in ERP"
                    /\ Rows[r].erpPrice = Null
                    /\ Rows[r].diff = Null
        /\ Sum.exceptions =
              Cardinality({i \in PoIdx : IsUnknown(i)}) + Cardinality(RowsOf("Exception"))
        /\ RowsOf("Exception") = {} => Sum.exposure = 0

\* an unknown PO SKU that is an extension of an ERP SKU, beside a Tolerance
\* row and no Exception row
C8_Witness ==
    /\ Done
    /\ \E i \in PoIdx : /\ IsUnknown(i)
                        /\ \E k \in ErpKeys : ProperPrefix(k, PoNorm(i))
    /\ RowsOf("Exception") = {}
    /\ RowsOf("Tolerance") # {}

\* C9: every distinct normalized ERP SKU that no PO row matched yields
\* exactly one "Not in PO" row, and an ERP SKU that a PO row matched none.
C9_NotInPo ==
    Done =>
        /\ \A k \in ErpKeys :
              Cardinality({r \in RowsOf("Not in PO") : normalizeSku(Rows[r].sku) = k})
                 = IF k \in MatchedKeys THEN 0 ELSE 1
        /\ \A r \in RowsOf("Not in PO") : normalizeSku(Rows[r].sku) \in ErpKeys

\* a matched key, and an unmatched key that two ERP rows carry
C9_Witness ==
    /\ Done
    /\ \E k \in ErpKeys : k \in MatchedKeys
    /\ \E k \in ErpKeys : /\ k \notin MatchedKeys
                          /\ Cardinality({j \in ErpIdx : ErpNorm(j) = k}) >= 2

----------------------------------------------------------------------------
(* detector.js: the column detector *)

\* a value that is present, where <<>> is null
Some(x) == <<x>>

\* the lower-case letter of every capital
LowerCase ==
    [A |-> "a", B |-> "b", C |-> "c", D |-> "d", E |-> "e", F |-> "f", G
     |-> "g", H |-> "h", I |-> "i", J |-> "j", K |-> "k", L |-> "l", M |->
     "m", N |-> "n", O |-> "o", P |-> "p", Q |-> "q", R |-> "r", S |-> "s",
     T |-> "t", U |-> "u", V |-> "v", W |-> "w", X |-> "x", Y |-> "y", Z
     |-> "z"]

LowerChar(c) == IF c \in DOMAIN LowerCase THEN LowerCase[c] ELSE c

RECURSIVE LowerFrom(_, _, _)
LowerFrom(s, i, acc) ==
    IF i > Len(s) THEN acc
    ELSE LowerFrom(s, i + 1, Append(acc, LowerChar(s[i])))

\* String.prototype.toLowerCase
ToLowerCase(s) == LowerFrom(s, 1, <<>>)

\* String.prototype.includes
Includes(s, sub) ==
    \E i \in 1..(Len(s) - Len(sub) + 1) : SubSeq(s, i, i + Len(sub) - 1) = sub

SKU_ALIASES ==
    <<<<"s", "k", "u">>,
      <<"i", "t", "e", "m", " ", "n", "u", "m", "b", "e", "r">>,
      <<"p", "r", "o", "d", "u", "c", "t", " ", "c", "o", "d", "e">>,
      <<"p", "a", "r", "t", " ", "n", "u", "m", "b", "e", "r">>,
      <<"i", "t", "e", "m", " ", "n", "o">>,
      <<"i", "t", "e", "m", " ", "#">>,
      <<"m", "a", "t", "e", "r", "i", "a", "l">>,
      <<"p", "r", "o", "d", "u", "c", "t", " ", "i", "d">>,
      <<"a", "r", "t", "i", "c", "l", "e">>,
      <<"u", "p", "c">>>>

PRICE_ALIASES ==
    <<<<"p", "r", "i", "c", "e">>,
      <<"u", "n", "i", "t", " ", "p", "r", "i", "c", "e">>,
      <<"c", "o", "s", "t">>,
      <<"a", "m", "o", "u", "n", "t">>,
      <<"u", "n", "i", "t", " ", "c", "o", "s", "t">>,
      <<"n", "e", "t", " ", "p", "r", "i", "c", "e">>,
      <<"e", "a", "c", "h">>,
      <<"r", "a", "t", "e">>,
      <<"e", "x", "t", " ", "p", "r", "i", "c", "e">>>>

NAME_ALIASES ==
    <<<<"p", "r", "o", "d", "u", "c", "t", " ", "n", "a", "m", "e">>,
      <<"d", "e", "s", "c", "r", "i", "p", "t", "i", "o", "n">>,
      <<"i", "t", "e", "m", " ", "d", "e", "s", "c", "r", "i", "p", "t", "i", "o", "n">>,
      <<"p", "r", "o", "d", "u", "c", "t", " ", "d", "e", "s", "c", "r", "i", "p", "t", "i", "o", "n">>,
      <<"n", "a", "m", "e">>,
      <<"i", "t", "e", "m", " ", "n", "a", "m", "e">>,
      <<"p", "r", "o", "d", "u", "c", "t">>>>

\* the three loops of findColumn, in the order they run
Passes == <<"exact", "header contains alias", "alias contains header">>

\* the test a pass applies to a normalized header h and an alias
PassTest(pass, h, alias) ==
    IF pass = "exact" THEN h = alias
    ELSE IF pass = "header contains alias" THEN Includes(h, alias)
    ELSE Includes(alias, h) /\ Len(h) >= 3

\* normalized.indexOf / normalized.findIndex: the first index, 0 for -1
RECURSIVE FindIndexFrom(_, _, _, _)
FindIndexFrom(pass, normalized, alias, i) ==
    IF i > Len(normalized) THEN 0
    ELSE IF PassTest(pass, normalized[i], alias) THEN i
    ELSE FindIndexFrom(pass, normalized, alias, i + 1)

RECURSIVE PassFrom(_, _, _, _, _)

\* one iteration of a loop over the aliases, idx being the index it found
AliasStep(pass, hs, normalized, aliases, a, idx) ==
    IF idx # 0 THEN Some(hs[idx])
    ELSE PassFrom(pass, hs, normalized, aliases, a + 1)

\* one loop over the aliases, from the alias number a on
PassFrom(pass, hs, normalized, aliases, a) ==
    IF a > Len(aliases) THEN Null
    ELSE AliasStep(pass, hs, normalized, aliases, a,
                   FindIndexFrom(pass, normalized, aliases[a], 1))

RECURSIVE PassesFrom(_, _, _, _)

\* what follows a loop that ended with found
PassEnd(p, hs, normalized, aliases, found) ==
    IF found # Null THEN found
    ELSE PassesFrom(p + 1, hs, normalized, aliases)

PassesFrom(p, hs, normalized, aliases) ==
    IF p > Len(Passes) THEN Null
    ELSE PassEnd(p, hs, normalized, aliases,
                 PassFrom(Passes[p], hs, normalized, aliases, 1))

RECURSIVE NormalizeFrom(_, _, _)
NormalizeFrom(hs, i, acc) ==
    IF i > Len(hs) THEN acc
    ELSE NormalizeFrom(hs, i + 1, Append(acc, Trim(ToLowerCase(hs[i]))))

\* the headers trimmed with their case kept
Normalize_CaseKept(hs) == [i \in 1..Len(hs) |-> Trim(hs[i])]

\* headers.map((h) => h.toLowerCase().trim())
Normalize(hs) == NormalizeFrom(hs, 1, <<>>)

\* findColumn that walks the headers first: the first header any alias matches
findColumn_HeaderFirst(hs, aliases) ==
    LET normalized == Normalize(hs)
        Hit(pass, i) == \E a \in 1..Len(aliases) :
                            PassTest(pass, normalized[i], aliases[a])
        AnyHit(pass) == \E i \in 1..Len(hs) : Hit(pass, i)
        FirstHit(pass) == CHOOSE i \in 1..Len(hs) :
                           Hit(pass, i) /\ \A j \in 1..(i - 1) : ~Hit(pass, j)
    IN  IF AnyHit(Passes[1]) THEN Some(hs[FirstHit(Passes[1])])
        ELSE IF AnyHit(Passes[2]) THEN Some(hs[FirstHit(Passes[2])])
        ELSE IF AnyHit(Passes[3]) THEN Some(hs[FirstHit(Passes[3])])
        ELSE Null

\* findColumn(headers, aliases): the header found, or null
findColumn(hs, aliases) == PassesFrom(1, hs, Normalize(hs), aliases)

\* detectColumns(headers)
detectColumns(hs) ==
    [sku |-> findColumn(hs, SKU_ALIASES),
     price |-> findColumn(hs, PRICE_ALIASES),
     name |-> findColumn(hs, NAME_ALIASES)]

\* the most headers a header list under detection holds
MaxHeaders == 3

\* The headers a list of the model is made of: exact matches of two price
\* aliases, one of them padded and in capitals, a header that contains a price
\* alias, headers that aliases contain (of 4 and of 2 characters), exact and
\* contained headers for the other roles, and a header that contains an alias
\* of the sku role and an alias of the price role.
HeaderPool ==
    {<<"C", "o", "s", "t">>,
     <<" ", "P", "R", "I", "C", "E", " ">>,
     <<"T", "o", "t", "a", "l", " ", "C", "o", "s", "t">>,
     <<"P", "r", "i", "c">>,
     <<"e", "a">>,
     <<"S", "K", "U">>,
     <<"I", "t", "e", "m">>,
     <<"Q", "t", "y">>,
     <<"M", "a", "t", "e", "r", "i", "a", "l", " ", "C", "o", "s", "t">>}

\* a header list of at most MaxHeaders headers is about to be detected
InitDetect ==
    /\ \E n \in 0..MaxHeaders : headers \in [1..n -> HeaderPool]
    /\ columns = <<>>
    /\ NoTables
    /\ NoFile
    /\ NoPct
    /\ NoPane

\* one call of detectColumns(headers), whose caller keeps the roles
DetectColumns ==
    /\ columns = <<>>
    /\ columns' = Some(detectColumns(headers))
    /\ UNCHANGED <<poData, erpData, tolerance, clock, erpMap, results, credit,
                   headers, file, parsed, pct, pane>>

NextDetect == DetectColumns

SpecDetect == InitDetect /\ [][NextDetect]_vars

----------------------------------------------------------------------------
(* The claims about the column detector *)

\* the alias list of a role
AliasesOf(role) ==
    IF role = "sku" THEN SKU_ALIASES
    ELSE IF role = "price" THEN PRICE_ALIASES
    ELSE NAME_ALIASES

\* a header as the detector compares it: in lower case, without padding
Lowered(h) == Trim(ToLowerCase(h))

\* whether alias number a matches header number i in a pass of the detector
\* (1: equal; 2: the header contains the alias; 3: the alias contains the
\* header, of 3 characters or more)
SpecMatch(p, a, i, aliases) ==
    IF p = 1 THEN Lowered(headers[i]) = aliases[a]
    ELSE IF p = 2 THEN Contains(Lowered(headers[i]), aliases[a])
    ELSE Contains(aliases[a], Lowered(headers[i])) /\ Len(Lowered(headers[i])) >= 3

\* the matches of a pass: pairs of an alias number and a header number
SpecMatches(p, aliases) ==
    {m \in (1..Len(aliases)) \X (1..Len(headers)) : SpecMatch(p, m[1], m[2], aliases)}

\* the match that wins among M: earliest alias, then earliest header
SpecWinner(M) ==
    CHOOSE m \in M : \A n \in M : m[1] < n[1] \/ (m[1] = n[1] /\ m[2] <= n[2])

\* the header the claim expects for an alias list
SpecFound(aliases) ==
    IF SpecMatches(1, aliases) # {}
    THEN Some(headers[SpecWinner(SpecMatches(1, aliases))[2]])
    ELSE IF SpecMatches(2, aliases) # {}
    THEN Some(headers[SpecWinner(SpecMatches(2, aliases))[2]])
    ELSE IF SpecMatches(3, aliases) # {}
    THEN Some(headers[SpecWinner(SpecMatches(3, aliases))[2]])
    ELSE Null

\* C11: for every role, findColumn returns the header of the winning match of
\* the first pass that has a match - exact before header-contains-alias
\* before alias-contains-header, within a pass the earliest-declared alias
\* and for it the earliest header - and null only when no pass has a match.
C11_FindColumn ==
    columns # <<>> =>
        \A role \in {"sku", "price", "name"} :
            columns[1][role] = SpecFound(AliasesOf(role))

\* detection ran on a list where "Cost" stands before " PRICE " and a later
\* header only matches by being contained in an alias: price is " PRICE "
C11_Witness ==
    /\ columns # <<>>
    /\ headers = <<<<"C", "o", "s", "t">>, <<" ", "P", "R", "I", "C", "E", " ">>, <<"I", "t", "e", "m">>>>
    /\ columns[1].price = Some(<<" ", "P", "R", "I", "C", "E", " ">>)
    /\ columns[1].sku = Some(<<"I", "t", "e", "m">>)

----------------------------------------------------------------------------
(* parser.js: the header locator.  A raw table is a sequence of rows, a row  *)
(* a sequence of cell texts; rows are numbered from 1 (the code's index + 1) *)

HEADER_KEYWORDS ==
    <<<<"s", "k", "u">>, <<"i", "t", "e", "m">>, <<"p", "r", "o", "d", "u", "c", "t">>, <<"p", "a", "r", "t">>, <<"m", "a", "t", "e", "r", "i", "a", "l">>, <<"a", "r", "t", "i", "c", "l", "e">>,
      <<"u", "p", "c">>, <<"o", "r", "d", "e", "r", "e", "d">>,
      <<"p", "r", "i", "c", "e">>, <<"c", "o", "s", "t">>, <<"a", "m", "o", "u", "n", "t">>, <<"r", "a", "t", "e">>, <<"e", "a", "c", "h">>, <<"t", "o", "t", "a", "l">>,
      <<"q", "t", "y">>, <<"q", "u", "a", "n", "t", "i", "t", "y">>, <<"d", "e", "s", "c", "r", "i", "p", "t", "i", "o", "n">>, <<"n", "a", "m", "e">>,
      <<"u", "n", "i", "t">>>>

\* the longest text that still counts as a short cell
ShortLimit == 40

\* the weight of a keyword hit in a row's score
KeywordWeight == 10

\* what parseFile returns
Table(hdrs, rows, auto) ==
    [kind |-> "table", headers |-> hdrs, rows |-> rows, autoDetected |-> auto]

\* what parseFile throws
Error(message) == [kind |-> "error", message |-> message]

\* c != null && String(c).trim() !== ""
NonEmptyCell(c) == Trim(c) # <<>>

\* the cells a row is scored on
NonEmptyCells(row) == {i \in 1..Len(row) : NonEmptyCell(row[i])}

\* val.length > 40 skips the cell
IsShort(val) == Len(val) <= ShortLimit

\* the loop over HEADER_KEYWORDS, which stops at the first hit
HasKeyword(val) ==
    \E k \in 1..Len(HEADER_KEYWORDS) : Includes(val, HEADER_KEYWORDS[k])

ShortCells(row) ==
    {i \in NonEmptyCells(row) : IsShort(Trim(ToLowerCase(row[i])))}

KeywordHits(row) ==
    {i \in ShortCells(row) : HasKeyword(Trim(ToLowerCase(row[i])))}

\* the entry pushed to scored, given the two counts of the row
ScoredEntry(i, keywordHits, shortCells) ==
    [idx |-> i,
     score |-> keywordHits * KeywordWeight + shortCells,
     shortCells |-> shortCells,
     keywordHits |-> keywordHits]

\* the entry pushed to scored for the row number i
Scored(row, i) ==
    ScoredEntry(i, Cardinality(KeywordHits(row)), Cardinality(ShortCells(row)))

RECURSIVE ScoredFrom(_, _, _)
ScoredFrom(rawRows, i, scored) ==
    IF i > Len(rawRows) THEN scored
    ELSE ScoredFrom(rawRows, i + 1,
                    IF Cardinality(NonEmptyCells(rawRows[i])) < 2 THEN scored
                    ELSE Append(scored, Scored(rawRows[i], i)))

\* the comparator that ranks by the score alone
RankCompare_ScoreOnly(a, b) == b.score - a.score

\* b.score - a.score || b.shortCells - a.shortCells
RankCompare(a, b) ==
    IF b.score - a.score # 0 THEN b.score - a.score
    ELSE b.shortCells - a.shortCells

\* Array.prototype.sort is stable: x goes behind everything not after it
RECURSIVE RankInsert(_, _)
RankInsert(s, x) ==
    IF s = <<>> THEN <<x>>
    ELSE IF RankCompare(s[Len(s)], x) <= 0 THEN Append(s, x)
    ELSE Append(RankInsert(SubSeq(s, 1, Len(s) - 1), x), s[Len(s)])

RECURSIVE RankSortFrom(_, _, _)
RankSortFrom(scored, i, sorted) ==
    IF i > Len(scored) THEN sorted
    ELSE RankSortFrom(scored, i + 1, RankInsert(sorted, scored[i]))

\* scored.map((s) => s.idx)
RECURSIVE IndicesFrom(_, _, _)
IndicesFrom(scored, k, acc) ==
    IF k > Len(scored) THEN acc
    ELSE IndicesFrom(scored, k + 1, Append(acc, scored[k].idx))

\* rankHeaderCandidates(rawRows): the row numbers, best first
rankHeaderCandidates(rawRows) ==
    IndicesFrom(RankSortFrom(ScoredFrom(rawRows, 1, <<>>), 1, <<>>), 1, <<>>)

RECURSIVE ExtractFrom(_, _, _)
ExtractFrom(rawRow, i, acc) ==
    IF i > Len(rawRow) THEN acc
    ELSE ExtractFrom(rawRow, i + 1,
                     IF Trim(rawRow[i]) # <<>>
                     THEN [headers |-> Append(acc.headers, Trim(rawRow[i])),
                           colMap |-> Append(acc.colMap, i)]
                     ELSE acc)

\* extractHeaders(rawRow): the trimmed non-empty cells and their columns
extractHeaders(rawRow) == ExtractFrom(rawRow, 1, [headers |-> <<>>, colMap |-> <<>>])

\* row[col] != null ? String(row[col]) : ""
CellAt(row, col) == IF col <= Len(row) THEN row[col] ELSE <<>>

\* the column read for the header number i, read at the header's own position
CellColumn_Position(colMap, i) == i

\* the column read for the header number i
CellColumn(colMap, i) == colMap[i]

\* the object built for one data row: headers.forEach assigns obj[h], so a
\* header that occurs twice keeps the cell of its last occurrence
RowObject(row, hdrs, colMap) ==
    [h \in {hdrs[i] : i \in 1..Len(hdrs)} |->
        CellAt(row, CellColumn(colMap,
                               CHOOSE i \in 1..Len(hdrs) :
                                   /\ hdrs[i] = h
                                   /\ \A j \in (i + 1)..Len(hdrs) : hdrs[j] # h))]

RECURSIVE BuildRowsFrom(_, _, _, _, _)
BuildRowsFrom(rawRows, i, hdrs, colMap, rows) ==
    IF i > Len(rawRows) THEN rows
    ELSE BuildRowsFrom(rawRows, i + 1, hdrs, colMap,
                       IF NonEmptyCells(rawRows[i]) # {}
                       THEN Append(rows, RowObject(rawRows[i], hdrs, colMap))
                       ELSE rows)

\* buildRows(rawRows, headerIdx, headers, colMap)
buildRows(rawRows, headerIdx, hdrs, colMap) ==
    BuildRowsFrom(rawRows, headerIdx + 1, hdrs, colMap, <<>>)

\* what findBestTable returns when it neither finds a table nor throws
EmptyTable == Table(<<>>, <<>>, FALSE)

RECURSIVE AutoFrom(_, _, _)

\* the end of an iteration of the first loop, rows being the built rows
AutoRows(rawRows, candidates, k, extracted, rows) ==
    IF Len(rows) > 0 THEN Some(Table(extracted.headers, rows, TRUE))
    ELSE AutoFrom(rawRows, candidates, k + 1)

\* an iteration of the first loop after detection
AutoDetected(rawRows, candidates, k, extracted, detected) ==
    IF detected.sku # Null /\ detected.price # Null
    THEN AutoRows(rawRows, candidates, k, extracted,
                  buildRows(rawRows, candidates[k], extracted.headers,
                            extracted.colMap))
    ELSE AutoFrom(rawRows, candidates, k + 1)

\* an iteration of the first loop after extractHeaders
AutoExtracted(rawRows, candidates, k, extracted) ==
    IF Len(extracted.headers) < 2 THEN AutoFrom(rawRows, candidates, k + 1)
    ELSE AutoDetected(rawRows, candidates, k, extracted,
                      detectColumns(extracted.headers))

\* the first loop of findBestTable: the table of the first candidate that
\* resolves sku and price and has a data row, or null
AutoFrom(rawRows, candidates, k) ==
    IF k > Len(candidates) THEN Null
    ELSE AutoExtracted(rawRows, candidates, k, extractHeaders(rawRows[candidates[k]]))

\* colsB - colsA
ColumnsCompare(rawRows, a, b) ==
    Len(extractHeaders(rawRows[b]).headers) - Len(extractHeaders(rawRows[a]).headers)

RECURSIVE ColumnsInsert(_, _, _)
ColumnsInsert(rawRows, s, x) ==
    IF s = <<>> THEN <<x>>
    ELSE IF ColumnsCompare(rawRows, s[Len(s)], x) <= 0 THEN Append(s, x)
    ELSE Append(ColumnsInsert(rawRows, SubSeq(s, 1, Len(s) - 1), x), s[Len(s)])

RECURSIVE ColumnsSortFrom(_, _, _, _)
ColumnsSortFrom(rawRows, candidates, i, sorted) ==
    IF i > Len(candidates) THEN sorted
    ELSE ColumnsSortFrom(rawRows, candidates, i + 1,
                         ColumnsInsert(rawRows, sorted, candidates[i]))

\* the candidates left in rank order
fallbackCandidates_RankOrder(rawRows, candidates) == candidates

\* fallbackCandidates: the candidates, most header cells first
fallbackCandidates(rawRows, candidates) ==
    ColumnsSortFrom(rawRows, candidates, 1, <<>>)

\* how findBestTable ends without a table
NoTable(throwOnFail) ==
    IF throwOnFail THEN Error("Could not find a valid header row in the file.")
    ELSE EmptyTable

RECURSIVE FallbackFrom(_, _, _, _)

\* the end of an iteration of the second loop, rows being the built rows
FallbackRows(rawRows, candidates, k, throwOnFail, extracted, rows) ==
    IF Len(rows) > 0 THEN Table(extracted.headers, rows, FALSE)
    ELSE FallbackFrom(rawRows, candidates, k + 1, throwOnFail)

\* an iteration of the second loop after extractHeaders
FallbackExtracted(rawRows, candidates, k, throwOnFail, extracted) ==
    IF Len(extracted.headers) < 2
    THEN FallbackFrom(rawRows, candidates, k + 1, throwOnFail)
    ELSE FallbackRows(rawRows, candidates, k, throwOnFail, extracted,
                      buildRows(rawRows, candidates[k], extracted.headers,
                                extracted.colMap))

\* the second loop of findBestTable, over fallbackCandidates
FallbackFrom(rawRows, candidates, k, throwOnFail) ==
    IF k > Len(candidates) THEN NoTable(throwOnFail)
    ELSE FallbackExtracted(rawRows, candidates, k, throwOnFail,
                           extractHeaders(rawRows[candidates[k]]))

\* findBestTable after the first loop, which ended with auto
AfterAuto(rawRows, candidates, throwOnFail, auto) ==
    IF auto # Null THEN auto[1]
    ELSE FallbackFrom(rawRows, fallbackCandidates(rawRows, candidates), 1, throwOnFail)

\* findBestTable after rankHeaderCandidates
Ranked(rawRows, candidates, throwOnFail) ==
    AfterAuto(rawRows, candidates, throwOnFail, AutoFrom(rawRows, candidates, 1))

\* findBestTable(rawRows, throwOnFail)
findBestTable(rawRows, throwOnFail) ==
    IF Len(rawRows) < 2
    THEN (IF throwOnFail
          THEN Error("File needs at least a header row and one data row.")
          ELSE EmptyTable)
    ELSE Ranked(rawRows, rankHeaderCandidates(rawRows), throwOnFail)

\* the test that replaces bestFallback, always passing: the last sheet wins
BetterFallback_Latest(result, bestFallback) == TRUE

\* !bestFallback || result.headers.length > bestFallback.headers.length
BetterFallback(result, bestFallback) ==
    \/ bestFallback = Null
    \/ Len(result.headers) > Len(bestFallback[1].headers)

RECURSIVE SheetsFrom(_, _, _)

\* an iteration of the loop over the sheets, result being findBestTable's
SheetStep(sheets, k, bestFallback, result) ==
    IF result.autoDetected THEN result
    ELSE SheetsFrom(sheets, k + 1,
                    IF BetterFallback(result, bestFallback) THEN Some(result)
                    ELSE bestFallback)

\* the loop over workbook.SheetNames and what follows it
SheetsFrom(sheets, k, bestFallback) ==
    IF k > Len(sheets)
    THEN (IF bestFallback # Null THEN bestFallback[1]
          ELSE Error("Could not find a valid data table in any sheet."))
    ELSE IF Len(sheets[k]) < 2 THEN SheetsFrom(sheets, k + 1, bestFallback)
    ELSE SheetStep(sheets, k, bestFallback, findBestTable(sheets[k], FALSE))

\* parseExcelAllSheets(file), sheets being the raw rows of the workbook's sheets
parseExcelAllSheets(sheets) ==
    IF Len(sheets) = 0 THEN Error("Excel file has no sheets.")
    ELSE SheetsFrom(sheets, 1, Null)

\* parseFile(file) for the delimited and the workbook formats
parseFile(f) ==
    IF f.ext \in {"csv", "tsv"} THEN findBestTable(f.sheets[1], TRUE)
    ELSE IF f.ext \in {"xlsx", "xls"} THEN parseExcelAllSheets(f.sheets)
    ELSE Error("Unsupported file type")

----------------------------------------------------------------------------
(* The sample files of test-data/generate-oxo.js *)

\* the ERP export: the columns "Ordered Item", "Description", "Unit Qty" and
\* "Unit Price" of its 20 rows
erpItems ==
    <<<<<<"1", "1", "0", "8", "0", "V", "0", "1", "2">>, <<"P", "r", "e", "m",
      "i", "u", "m", " ", "3", "-", "P", "i", "e", "c", "e", " ", "P", "e",
      "e", "l", "e", "r", " ", "S", "e", "t">>, <<"2", "4">>, <<"1", "2", ".",
      "9", "9">>>>,
      <<<<"1", "1", "0", "8", "1", "V", "0", "0", "3">>, <<"C", "l", "a", "s",
      "s", "i", "c", " ", "S", "w", "i", "v", "e", "l", " ", "P", "e", "e",
      "l", "e", "r">>, <<"3", "6">>, <<"9", ".", "9", "9">>>>,
      <<<<"1", "1", "0", "8", "2", "V", "0", "0", "8">>, <<"E", "r", "g", "o",
      "n", "o", "m", "i", "c", " ", "C", "a", "n", " ", "O", "p", "e", "n",
      "e", "r">>, <<"1", "2">>, <<"2", "1", ".", "9", "9">>>>,
      <<<<"1", "1", "0", "8", "3", "V", "0", "0", "1">>, <<"S", "t", "a", "i",
      "n", "l", "e", "s", "s", " ", "S", "t", "e", "e", "l", " ", "G", "a",
      "r", "l", "i", "c", " ", "P", "r", "e", "s", "s">>, <<"1", "8">>, <<"1",
      "5", ".", "9", "9">>>>,
      <<<<"1", "1", "0", "8", "4", "V", "0", "0", "5">>, <<"L", "o", "c", "k",
      "i", "n", "g", " ", "T", "o", "n", "g", "s", " ", "1", "2", "-", "I",
      "n", "c", "h">>, <<"2", "4">>, <<"1", "4", ".", "4", "9">>>>,
      <<<<"1", "1", "0", "8", "5", "V", "0", "0", "2">>, <<"S", "i", "l", "i",
      "c", "o", "n", "e", " ", "S", "p", "a", "t", "u", "l", "a">>, <<"3",
      "0">>, <<"1", "1", ".", "4", "9">>>>,
      <<<<"1", "1", "0", "8", "6", "V", "0", "1", "0">>, <<"B", "a", "l", "l",
      "o", "o", "n", " ", "W", "h", "i", "s", "k", " ", "1", "1", "-", "I",
      "n", "c", "h">>, <<"1", "2">>, <<"1", "0", ".", "9", "9">>>>,
      <<<<"1", "1", "0", "8", "7", "V", "0", "0", "4">>, <<"3", "-", "P", "i",
      "e", "c", "e", " ", "M", "i", "x", "i", "n", "g", " ", "B", "o", "w",
      "l", " ", "S", "e", "t">>, <<"6">>, <<"2", "9", ".", "9", "9">>>>,
      <<<<"1", "1", "0", "8", "8", "V", "0", "0", "6">>, <<"S", "a", "l", "a",
      "d", " ", "S", "p", "i", "n", "n", "e", "r", " ", "L", "a", "r", "g",
      "e">>, <<"1", "2">>, <<"3", "2", ".", "9", "9">>>>,
      <<<<"1", "1", "0", "8", "9", "V", "0", "0", "1">>, <<"M", "e", "a", "s",
      "u", "r", "i", "n", "g", " ", "C", "u", "p", "s", " ", "S", "e", "t",
      " ", "o", "f", " ", "4">>, <<"3", "6">>, <<"9", ".", "4", "9">>>>,
      <<<<"1", "1", "0", "9", "0", "V", "0", "0", "3">>, <<"B", "a", "m", "b",
      "o", "o", " ", "C", "u", "t", "t", "i", "n", "g", " ", "B", "o", "a",
      "r", "d">>, <<"2", "4">>, <<"1", "8", ".", "9", "9">>>>,
      <<<<"1", "1", "0", "9", "1", "V", "0", "0", "7">>, <<"S", "t", "a", "i",
      "n", "l", "e", "s", "s", " ", "S", "t", "e", "e", "l", " ", "C", "o",
      "l", "a", "n", "d", "e", "r">>, <<"1", "8">>, <<"1", "6", ".", "4",
      "9">>>>,
      <<<<"1", "1", "0", "9", "2", "V", "0", "0", "2">>, <<"B", "o", "x", " ",
      "G", "r", "a", "t", "e", "r", " ", "4", "-", "S", "i", "d", "e", "d">>,
      <<"1", "2">>, <<"1", "3", ".", "9", "9">>>>,
      <<<<"1", "1", "0", "9", "3", "V", "0", "0", "9">>, <<"K", "i", "t", "c",
      "h", "e", "n", " ", "S", "h", "e", "a", "r", "s", " ", "H", "e", "a",
      "v", "y", " ", "D", "u", "t", "y">>, <<"6">>, <<"1", "9", ".", "9",
      "9">>>>,
      <<<<"1", "1", "0", "9", "4", "V", "0", "0", "1">>, <<"F", "l", "e", "x",
      "i", "b", "l", "e", " ", "T", "u", "r", "n", "e", "r">>, <<"2", "4">>,
      <<"1", "2", ".", "4", "9">>>>,
      <<<<"1", "1", "0", "9", "5", "V", "0", "0", "4">>, <<"S", "o", "u", "p",
      " ", "L", "a", "d", "l", "e">>, <<"3", "0">>, <<"1", "1", ".", "9",
      "9">>>>,
      <<<<"1", "1", "0", "9", "6", "V", "0", "0", "6">>, <<"P", "o", "t", "a",
      "t", "o", " ", "M", "a", "s", "h", "e", "r">>, <<"1", "8">>, <<"1", "3",
      ".", "4", "9">>>>,
      <<<<"1", "1", "0", "9", "7", "V", "0", "0", "2">>, <<"I", "c", "e", " ",
      "C", "r", "e", "a", "m", " ", "S", "c", "o", "o", "p">>, <<"1", "2">>,
      <<"1", "0", ".", "9", "9">>>>,
      <<<<"1", "1", "0", "9", "8", "V", "0", "0", "8">>, <<"P", "i", "z", "z",
      "a", " ", "W", "h", "e", "e", "l", " ", "C", "u", "t", "t", "e", "r">>,
      <<"2", "4">>, <<"1", "4", ".", "9", "9">>>>,
      <<<<"1", "1", "0", "9", "9", "V", "0", "0", "3">>, <<"B", "o", "t", "t",
      "l", "e", " ", "O", "p", "e", "n", "e", "r">>, <<"3", "6">>, <<"7", ".",
      "9", "9">>>>>>

\* the 20 lines of the order form
poItems ==
    <<<<<<"1", "1", "0", "8", "0">>, <<"2", "4">>, <<"P", "r", "e", "m", "i",
      "u", "m", " ", "3", "-", "P", "i", "e", "c", "e", " ", "P", "e", "e",
      "l", "e", "r", " ", "S", "e", "t">>, <<"1", "3", ".", "5", "0">>, <<"O",
      "K">>, <<"M", "O", "Q", " ", "1", "2">>, <<"3", "2", "4", ".", "0",
      "0">>, <<"L", "I", "V", "E">>, <<>>>>,
      <<<<"1", "1", "0", "8", "1">>, <<"3", "6">>, <<"C", "l", "a", "s", "s",
      "i", "c", " ", "S", "w", "i", "v", "e", "l", " ", "P", "e", "e", "l",
      "e", "r">>, <<"1", "0", ".", "0", "0">>, <<"O", "K">>, <<"M", "O", "Q",
      " ", "1", "2">>, <<"3", "6", "0", ".", "0", "0">>, <<"L", "I", "V",
      "E">>, <<>>>>,
      <<<<"1", "1", "0", "8", "2">>, <<"1", "2">>, <<"E", "r", "g", "o", "n",
      "o", "m", "i", "c", " ", "C", "a", "n", " ", "O", "p", "e", "n", "e",
      "r">>, <<"2", "1", ".", "9", "9">>, <<"O", "K">>, <<"M", "O", "Q", " ",
      "6">>, <<"2", "6", "3", ".", "8", "8">>, <<"L", "I", "V", "E">>, <<>>>>,
      <<<<"1", "1", "0", "8", "3">>, <<"1", "8">>, <<"S", "t", "a", "i", "n",
      "l", "e", "s", "s", " ", "S", "t", "e", "e", "l", " ", "G", "a", "r",
      "l", "i", "c", " ", "P", "r", "e", "s", "s">>, <<"1", "5", ".", "9",
      "9">>, <<"O", "K">>, <<"M", "O", "Q", " ", "6">>, <<"2", "8", "7", ".",
      "8", "2">>, <<"L", "I", "V", "E">>, <<>>>>,
      <<<<"1", "1", "0", "8", "4">>, <<"2", "4">>, <<"L", "o", "c", "k", "i",
      "n", "g", " ", "T", "o", "n", "g", "s", " ", "1", "2", "-", "I", "n",
      "c", "h">>, <<"1", "4", ".", "4", "9">>, <<"O", "K">>, <<"M", "O", "Q",
      " ", "1", "2">>, <<"3", "4", "7", ".", "7", "6">>, <<"L", "I", "V",
      "E">>, <<>>>>,
      <<<<"1", "1", "0", "8", "5">>, <<"3", "0">>, <<"S", "i", "l", "i", "c",
      "o", "n", "e", " ", "S", "p", "a", "t", "u", "l", "a">>, <<"1", "1",
      ".", "4", "9">>, <<"O", "K">>, <<"M", "O", "Q", " ", "1", "2">>, <<"3",
      "4", "4", ".", "7", "0">>, <<"L", "I", "V", "E">>, <<>>>>,
      <<<<"1", "1", "0", "8", "6">>, <<"1", "2">>, <<"B", "a", "l", "l", "o",
      "o", "n", " ", "W", "h", "i", "s", "k", " ", "1", "1", "-", "I", "n",
      "c", "h">>, <<"1", "0", ".", "9", "9">>, <<"O", "K">>, <<"M", "O", "Q",
      " ", "6">>, <<"1", "3", "1", ".", "8", "8">>, <<"L", "I", "V", "E">>,
      <<>>>>,
      <<<<"1", "1", "0", "8", "7">>, <<"6">>, <<"3", "-", "P", "i", "e", "c",
      "e", " ", "M", "i", "x", "i", "n", "g", " ", "B", "o", "w", "l", " ",
      "S", "e", "t">>, <<"2", "9", ".", "9", "9">>, <<"O", "K">>, <<"M", "O",
      "Q", " ", "3">>, <<"1", "7", "9", ".", "9", "4">>, <<"L", "I", "V",
      "E">>, <<>>>>,
      <<<<"1", "1", "0", "8", "8">>, <<"1", "2">>, <<"S", "a", "l", "a", "d",
      " ", "S", "p", "i", "n", "n", "e", "r", " ", "L", "a", "r", "g", "e">>,
      <<"3", "2", ".", "9", "9">>, <<"O", "K">>, <<"M", "O", "Q", " ", "6">>,
      <<"3", "9", "5", ".", "8", "8">>, <<"L", "I", "V", "E">>, <<>>>>,
      <<<<"1", "1", "0", "8", "9">>, <<"3", "6">>, <<"M", "e", "a", "s", "u",
      "r", "i", "n", "g", " ", "C", "u", "p", "s", " ", "S", "e", "t", " ",
      "o", "f", " ", "4">>, <<"9", ".", "4", "9">>, <<"O", "K">>, <<"M", "O",
      "Q", " ", "1", "2">>, <<"3", "4", "1", ".", "6", "4">>, <<"L", "I", "V",
      "E">>, <<>>>>,
      <<<<"1", "1", "0", "9", "0">>, <<"2", "4">>, <<"B", "a", "m", "b", "o",
      "o", " ", "C", "u", "t", "t", "i", "n", "g", " ", "B", "o", "a", "r",
      "d">>, <<"1", "7", ".", "4", "9">>, <<"O", "K">>, <<"M", "O", "Q", " ",
      "1", "2">>, <<"4", "1", "9", ".", "7", "6">>, <<"D", "i", "s", "c", "o",
      "n", "t", "i", "n", "u", "i", "n", "g">>, <<"W", "h", "i", "l", "e",
      " ", "s", "t", "o", "c", "k", " ", "l", "a", "s", "t", "s">>>>,
      <<<<"1", "1", "0", "9", "1">>, <<"1", "8">>, <<"S", "t", "a", "i", "n",
      "l", "e", "s", "s", " ", "S", "t", "e", "e", "l", " ", "C", "o", "l",
      "a", "n", "d", "e", "r">>, <<"1", "6", ".", "4", "9">>, <<"O", "K">>,
      <<"M", "O", "Q", " ", "6">>, <<"2", "9", "6", ".", "8", "2">>, <<"L",
      "I", "V", "E">>, <<>>>>,
      <<<<"1", "1", "0", "9", "2">>, <<"1", "2">>, <<"B", "o", "x", " ", "G",
      "r", "a", "t", "e", "r", " ", "4", "-", "S", "i", "d", "e", "d">>,
      <<"1", "3", ".", "9", "9">>, <<"O", "K">>, <<"M", "O", "Q", " ", "6">>,
      <<"1", "6", "7", ".", "8", "8">>, <<"L", "I", "V", "E">>, <<>>>>,
      <<<<"1", "1", "0", "9", "3">>, <<"6">>, <<"K", "i", "t", "c", "h", "e",
      "n", " ", "S", "h", "e", "a", "r", "s", " ", "H", "e", "a", "v", "y",
      " ", "D", "u", "t", "y">>, <<"1", "9", ".", "9", "9">>, <<"O", "K">>,
      <<"M", "O", "Q", " ", "3">>, <<"1", "1", "9", ".", "9", "4">>, <<"L",
      "I", "V", "E">>, <<>>>>,
      <<<<"1", "1", "0", "9", "4">>, <<"2", "4">>, <<"F", "l", "e", "x", "i",
      "b", "l", "e", " ", "T", "u", "r", "n", "e", "r">>, <<"1", "2", ".",
      "4", "9">>, <<"O", "K">>, <<"M", "O", "Q", " ", "1", "2">>, <<"2", "9",
      "9", ".", "7", "6">>, <<"L", "I", "V", "E">>, <<>>>>,
      <<<<"1", "1", "0", "9", "5">>, <<"3", "0">>, <<"S", "o", "u", "p", " ",
      "L", "a", "d", "l", "e">>, <<"1", "1", ".", "9", "9">>, <<"O", "K">>,
      <<"M", "O", "Q", " ", "1", "2">>, <<"3", "5", "9", ".", "7", "0">>,
      <<"L", "I", "V", "E">>, <<>>>>,
      <<<<"1", "1", "0", "9", "6">>, <<"1", "8">>, <<"P", "o", "t", "a", "t",
      "o", " ", "M", "a", "s", "h", "e", "r">>, <<"1", "3", ".", "4", "9">>,
      <<"O", "K">>, <<"M", "O", "Q", " ", "6">>, <<"2", "4", "2", ".", "8",
      "2">>, <<"L", "I", "V", "E">>, <<>>>>,
      <<<<"1", "1", "0", "9", "7">>, <<"1", "2">>, <<"I", "c", "e", " ", "C",
      "r", "e", "a", "m", " ", "S", "c", "o", "o", "p">>, <<"1", "0", ".",
      "9", "9">>, <<"O", "K">>, <<"M", "O", "Q", " ", "6">>, <<"1", "3", "1",
      ".", "8", "8">>, <<"L", "I", "V", "E">>, <<>>>>,
      <<<<"1", "1", "0", "9", "8">>, <<"2", "4">>, <<"P", "i", "z", "z", "a",
      " ", "W", "h", "e", "e", "l", " ", "C", "u", "t", "t", "e", "r">>,
      <<"1", "4", ".", "9", "9">>, <<"O", "K">>, <<"M", "O", "Q", " ", "1",
      "2">>, <<"3", "5", "9", ".", "7", "6">>, <<"L", "I", "V", "E">>, <<>>>>,
      <<<<"1", "1", "0", "9", "9">>, <<"3", "6">>, <<"B", "o", "t", "t", "l",
      "e", " ", "O", "p", "e", "n", "e", "r">>, <<"8", ".", "9", "9">>, <<"O",
      "K">>, <<"M", "O", "Q", " ", "1", "2">>, <<"3", "2", "3", ".", "6",
      "4">>, <<"L", "I", "V", "E">>, <<>>>>>>

\* the order form down to its header row: cover lines, customer data, the
\* status legend, a section title and the header of the table
rawTop ==
    <<<<<<"E", "U", " ", "W", "a", "r", "e", "h", "o", "u", "s", "e", " ",
      "O", "r", "d", "e", "r", " ", "F", "o", "r", "m">>, <<>>, <<>>, <<>>,
      <<>>, <<>>, <<>>, <<>>, <<>>>>,
      <<<<>>, <<>>, <<>>, <<>>, <<>>, <<>>, <<>>, <<>>, <<>>>>,
      <<<<"P", "l", "e", "a", "s", "e", " ", "c", "o", "m", "p", "l", "e",
      "t", "e", " ", "t", "h", "i", "s", " ", "f", "o", "r", "m", " ", "a",
      "n", "d", " ", "r", "e", "t", "u", "r", "n", " ", "t", "o", " ", "y",
      "o", "u", "r", " ", "s", "a", "l", "e", "s", " ", "r", "e", "p", "r",
      "e", "s", "e", "n", "t", "a", "t", "i", "v", "e", ".">>, <<>>, <<>>,
      <<>>, <<>>, <<>>, <<>>, <<>>, <<>>>>,
      <<<<"A", "l", "l", " ", "p", "r", "i", "c", "e", "s", " ", "a", "r",
      "e", " ", "i", "n", " ", "E", "U", "R", ".", " ", "M", "i", "n", "i",
      "m", "u", "m", " ", "o", "r", "d", "e", "r", " ", "q", "u", "a", "n",
      "t", "i", "t", "y", " ", "a", "p", "p", "l", "i", "e", "s", " ", "p",
      "e", "r", " ", "i", "t", "e", "m", ".">>, <<>>, <<>>, <<>>, <<>>, <<>>,
      <<>>, <<>>, <<>>>>,
      <<<<>>, <<>>, <<>>, <<>>, <<>>, <<>>, <<>>, <<>>, <<>>>>,
      <<<<"C", "u", "s", "t", "o", "m", "e", "r", ":">>, <<"A", "c", "m", "e",
      " ", "D", "i", "s", "t", "r", "i", "b", "u", "t", "i", "o", "n", " ",
      "B", "V">>, <<>>, <<"D", "a", "t", "e", ":">>, <<"2", "0", "2", "5",
      "-", "0", "1", "-", "1", "5">>, <<>>, <<>>, <<>>, <<>>>>,
      <<<<"A", "c", "c", "o", "u", "n", "t", " ", "#", ":">>, <<"E", "U", "-",
      "4", "8", "2", "0">>, <<>>, <<"P", "O", " ", "N", "u", "m", "b", "e",
      "r", ":">>, <<"P", "O", "-", "2", "0", "2", "5", "-", "0", "0", "4",
      "2">>, <<>>, <<>>, <<>>, <<>>>>,
      <<<<>>, <<>>, <<>>, <<>>, <<>>, <<>>, <<>>, <<>>, <<>>>>,
      <<<<"S", "t", "a", "t", "u", "s">>, <<"E", "x", "p", "l", "a", "n", "a",
      "t", "i", "o", "n">>, <<"N", "o", "t", "e", "s">>, <<>>, <<>>, <<>>,
      <<>>, <<>>, <<>>>>,
      <<<<"L", "I", "V", "E">>, <<"C", "u", "r", "r", "e", "n", "t", "l", "y",
      " ", "a", "v", "a", "i", "l", "a", "b", "l", "e", " ", "f", "o", "r",
      " ", "o", "r", "d", "e", "r", "i", "n", "g">>, <<>>, <<>>, <<>>, <<>>,
      <<>>, <<>>, <<>>>>,
      <<<<"D", "i", "s", "c", "o", "n", "t", "i", "n", "u", "i", "n", "g">>,
      <<"A", "v", "a", "i", "l", "a", "b", "l", "e", " ", "w", "h", "i", "l",
      "e", " ", "s", "t", "o", "c", "k", " ", "l", "a", "s", "t", "s">>, <<>>,
      <<>>, <<>>, <<>>, <<>>, <<>>, <<>>>>,
      <<<<"D", "i", "s", "c", "o", "n", "t", "i", "n", "u", "e", "d">>, <<"N",
      "o", " ", "l", "o", "n", "g", "e", "r", " ", "a", "v", "a", "i", "l",
      "a", "b", "l", "e">>, <<>>, <<>>, <<>>, <<>>, <<>>, <<>>, <<>>>>,
      <<<<>>, <<>>, <<>>, <<>>, <<>>, <<>>, <<>>, <<>>, <<>>>>,
      <<<<"O", "r", "d", "e", "r", "e", "d", " ", "I", "t", "e", "m", "s">>,
      <<>>, <<>>, <<>>, <<>>, <<>>, <<>>, <<>>, <<>>>>,
      <<<<>>, <<>>, <<>>, <<>>, <<>>, <<>>, <<>>, <<>>, <<>>>>,
      <<<<"I", "t", "e", "m", " ", "#">>, <<"U", "n", "i", "t", " ", "Q", "t",
      "y">>, <<"D", "e", "s", "c", "r", "i", "p", "t", "i", "o", "n">>, <<"P",
      "r", "i", "c", "e">>, <<"O", "r", "d", "e", "r", " ", "R", "u", "l",
      "e", " ", "C", "h", "e", "c", "k">>, <<"O", "r", "d", "e", "r", " ",
      "R", "u", "l", "e">>, <<"T", "o", "t", "a", "l", " ", "D", "u", "e">>,
      <<"S", "t", "a", "t", "u", "s">>, <<"N", "o", "t", "e", "s">>>>>>

\* the rows under the lines of the order form
rawFooter ==
    <<<<<<>>, <<>>, <<>>, <<>>, <<>>, <<>>, <<>>, <<>>, <<>>>>,
      <<<<>>, <<>>, <<>>, <<>>, <<>>, <<"T", "o", "t", "a", "l", " ", "I",
      "t", "e", "m", "s", ":">>, <<"2", "0">>, <<>>, <<>>>>,
      <<<<>>, <<>>, <<>>, <<>>, <<>>, <<"T", "o", "t", "a", "l", " ", "O",
      "r", "d", "e", "r", " ", "V", "a", "l", "u", "e", ":">>, <<"5", "6",
      "9", "9", ".", "2", "4">>, <<>>, <<>>>>>>

\* the sheet "Order Form"
raw == rawTop \o poItems \o rawFooter

\* the sheet "Cover"
coverRows ==
    <<<<<<"S", "u", "p", "p", "l", "i", "e", "r", " ", "C", "o", ".">>>>,
      <<<<"E", "U", " ", "W", "a", "r", "e", "h", "o", "u", "s", "e", " ",
      "O", "r", "d", "e", "r", " ", "F", "o", "r", "m">>>>,
      <<<<>>>>,
      <<<<"I", "n", "s", "t", "r", "u", "c", "t", "i", "o", "n", "s", ":">>>>,
      <<<<"1", ".", " ", "F", "i", "l", "l", " ", "i", "n", " ", "t", "h",
      "e", " ", "o", "r", "d", "e", "r", " ", "q", "u", "a", "n", "t", "i",
      "t", "i", "e", "s", " ", "o", "n", " ", "t", "h", "e", " ", "'", "O",
      "r", "d", "e", "r", " ", "F", "o", "r", "m", "'", " ", "s", "h", "e",
      "e", "t">>>>,
      <<<<"2", ".", " ", "E", "n", "s", "u", "r", "e", " ", "m", "i", "n",
      "i", "m", "u", "m", " ", "o", "r", "d", "e", "r", " ", "q", "u", "a",
      "n", "t", "i", "t", "i", "e", "s", " ", "a", "r", "e", " ", "m", "e",
      "t">>>>,
      <<<<"3", ".", " ", "R", "e", "t", "u", "r", "n", " ", "c", "o", "m",
      "p", "l", "e", "t", "e", "d", " ", "f", "o", "r", "m", " ", "t", "o",
      " ", "y", "o", "u", "r", " ", "s", "a", "l", "e", "s", " ", "r", "e",
      "p", "r", "e", "s", "e", "n", "t", "a", "t", "i", "v", "e">>>>,
      <<<<>>>>,
      <<<<"F", "o", "r", " ", "q", "u", "e", "s", "t", "i", "o", "n", "s",
      ",", " ", "c", "o", "n", "t", "a", "c", "t", " ", "o", "r", "d", "e",
      "r", "s", "@", "s", "u", "p", "p", "l", "i", "e", "r", ".", "e", "x",
      "a", "m", "p", "l", "e", ".", "c", "o", "m">>>>>>

\* sample_po_order.xlsx
SampleFile == [ext |-> "xlsx", sheets |-> <<coverRows, raw>>]

----------------------------------------------------------------------------
(* The state machine of the header locator: a file is parsed *)

\* the most rows the sheets of a file hold together
MaxRawRows == 4

\* The rows a raw table of the model is made of: a header with a gap that
\* resolves sku and price with one keyword hit; a header with three keyword
\* hits that resolves no sku; a data row of four cells; a row of empty cells;
\* a header of one long and one short cell that resolves sku and price; and
\* a header of 12 short cells without a keyword that resolves sku and price.
RawRowPool ==
    {<<<<"S", "K", "U">>, <<>>, <<"p", "r", "i">>>>,
     <<<<"T", "o", "t", "a", "l">>, <<"U", "n", "i", "t">>, <<"N", "a", "m", "e">>>>,
     <<<<"1">>, <<"x">>, <<"1", "0", ".", "0", "0">>, <<"y">>>>,
     <<<<>>, <<" ">>>>,
     <<<<"U", "n", "i", "t", " ", "p", "r", "i", "c", "e", " ", "i", "n", " ", "E", "U", "R", " ", "p", "e", "r", " ", "i", "t", "e", "m", ",", " ", "e", "x", "c", "l", "u", "d", "i", "n", "g", " ", "V", "A", "T">>,
       <<"S", "K", "U">>>>,
     <<<<"i", "t", "e">>, <<"p", "r", "i">>, <<"x">>, <<"x">>, <<"x">>, <<"x">>, <<"x">>, <<"x">>, <<"x">>, <<"x">>,
       <<"x">>, <<"x">>>>}

\* the raw tables of n rows
Tables(n) == [1..n -> RawRowPool]

\* a delimited file or a workbook of at most two sheets, of at most MaxRawRows
\* rows together, or the sample order form, is about to be parsed
InitParse ==
    /\ \/ \E n \in 0..MaxRawRows : \E t \in Tables(n) :
             file \in {[ext |-> "csv", sheets |-> <<t>>],
                       [ext |-> "xlsx", sheets |-> <<t>>]}
       \/ \E a \in 0..MaxRawRows : \E b \in 0..(MaxRawRows - a) :
             \E s \in Tables(a) : \E t \in Tables(b) :
                file = [ext |-> "xlsx", sheets |-> <<s, t>>]
       \/ file = [ext |-> "xlsx", sheets |-> <<>>]
       \/ file = SampleFile
    /\ parsed = <<>>
    /\ NoTables
    /\ NoHeaders
    /\ NoPct
    /\ NoPane

\* one call of parseFile(file), whose caller keeps the table or the error
ParseFile ==
    /\ parsed = <<>>
    /\ parsed' = Some(parseFile(file))
    /\ UNCHANGED <<poData, erpData, tolerance, clock, erpMap, results, credit,
                   headers, columns, file, pct, pane>>

NextParse == ParseFile

SpecParse == InitParse /\ [][NextParse]_vars

----------------------------------------------------------------------------
(* What the claims about the header locator speak of *)

\* the file has been parsed
Parsed == parsed # <<>>

\* how parseFile ended
Outcome == parsed[1]

\* parseFile returned a table
IsTable == Parsed /\ Outcome.kind = "table"

\* the file holds one raw table of two rows or more, which findBestTable ranks
OneTable == Len(file.sheets) = 1 /\ Len(file.sheets[1]) >= 2

\* the positions of the non-empty cells of a row
Filled(row) == {p \in 1..Len(row) : Trim(row[p]) # <<>>}

\* the rows with at least 2 non-empty cells: the candidates
SpecCandidates(t) == {h \in 1..Len(t) : Cardinality(Filled(t[h])) >= 2}

\* the short cells of a row, and those that contain a keyword
SpecShort(row) == {p \in Filled(row) : Len(Trim(row[p])) <= 40}

SpecHits(row) ==
    {p \in SpecShort(row) :
        \E k \in 1..Len(HEADER_KEYWORDS) : Contains(Lowered(row[p]), HEADER_KEYWORDS[k])}

SpecScore(row) == Cardinality(SpecHits(row)) * 10 + Cardinality(SpecShort(row))

\* row g stands before row h in rank order
Outranks(t, g, h) ==
    \/ SpecScore(t[g]) > SpecScore(t[h])
    \/ /\ SpecScore(t[g]) = SpecScore(t[h])
       /\ Cardinality(SpecShort(t[g])) > Cardinality(SpecShort(t[h]))

\* the position of the k-th non-empty cell of a row
FilledAt(row, k) ==
    CHOOSE p \in Filled(row) : Cardinality({q \in Filled(row) : q <= p}) = k

\* the headers a row yields: its non-empty cells, trimmed, in order
SpecHeaders(row) ==
    [k \in 1..Cardinality(Filled(row)) |-> Trim(row[FilledAt(row, k)])]

\* the non-empty rows below row h, in order
SpecDataRows(t, h) == SelectSeq(SubSeq(t, h + 1, Len(t)), LAMBDA r : Filled(r) # {})

\* the cell of a data row under the header text hd of the header row: the cell
\* at the original position of hd (of its last occurrence), "" beyond the row
SpecCell(headerRow, hd, r) ==
    LET p == CHOOSE q \in Filled(headerRow) :
                 /\ Trim(headerRow[q]) = hd
                 /\ \A q2 \in Filled(headerRow) : Trim(headerRow[q2]) = hd => q2 <= q
    IN  IF p <= Len(r) THEN r[p] ELSE <<>>

\* the table that row h yields as a header
SpecRows(t, h) ==
    [k \in 1..Len(SpecDataRows(t, h)) |->
        [hd \in {Trim(t[h][p]) : p \in Filled(t[h])} |->
            SpecCell(t[h], hd, SpecDataRows(t, h)[k])]]

\* row h resolves sku and price
Resolves(t, h) ==
    /\ detectColumns(SpecHeaders(t[h])).sku # Null
    /\ detectColumns(SpecHeaders(t[h])).price # Null

\* row h has a non-empty data row below it
HasData(t, h) == \E r \in (h + 1)..Len(t) : Filled(t[r]) # {}

\* row h can be accepted as an auto-detected header
Qualifies(t, h) == h \in SpecCandidates(t) /\ Resolves(t, h) /\ HasData(t, h)

\* C12: for a raw table, the result is auto-detected exactly when some row
\* with at least 2 non-empty cells resolves sku and price and has a non-empty
\* data row below it; its header is then such a row that no other such row
\* outranks (by score = keyword hits x 10 + short cells, then by short cells),
\* its headers are that row's non-empty cells, and each data row below is read
\* at the header cells' original column positions.
C12_FirstRankedHeader ==
    (Parsed /\ OneTable) =>
        LET t == file.sheets[1]
            Q == {h \in SpecCandidates(t) : Qualifies(t, h)}
        IN  /\ (IsTable /\ Outcome.autoDetected) <=> Q # {}
            /\ Q # {} =>
                  \E h \in Q :
                     /\ \A g \in Q : ~Outranks(t, g, h)
                     /\ Outcome.headers = SpecHeaders(t[h])
                     /\ Outcome.rows = SpecRows(t, h)

\* an auto-detected table whose header row has a gap, stands below a row of a
\* higher score that does not resolve, and above a row that also qualifies
C12_Witness ==
    /\ Parsed /\ OneTable /\ IsTable /\ Outcome.autoDetected
    /\ LET t == file.sheets[1]
       IN  \E h \in SpecCandidates(t) :
              /\ Outcome.headers = SpecHeaders(t[h])
              /\ Filled(t[h]) # 1..Len(t[h])
              /\ \E g \in SpecCandidates(t) : Outranks(t, g, h) /\ ~Resolves(t, g)
              /\ \E g \in SpecCandidates(t) : g # h /\ Qualifies(t, g)

\* findBestTable ended with its header-not-found failure
HeaderNotFound ==
    /\ Parsed
    /\ Outcome = Error("Could not find a valid header row in the file.")

\* the candidates of table t that have a non-empty data row below them
WithData(t) == {h \in SpecCandidates(t) : HasData(t, h)}

\* C13 as stated: when no candidate row auto-resolves sku and price, the
\* result is the candidate with the most header cells, with autoDetected =
\* false and no error; the header-not-found failure is raised only when no
\* row of the table has at least 2 non-empty cells.
C13_MostHeaderCells ==
    (Parsed /\ OneTable) =>
        LET t == file.sheets[1]
        IN  /\ (SpecCandidates(t) # {} /\ \A h \in SpecCandidates(t) : ~Resolves(t, h)) =>
                  /\ IsTable
                  /\ ~Outcome.autoDetected
                  /\ \E h \in SpecCandidates(t) :
                        /\ Outcome.headers = SpecHeaders(t[h])
                        /\ \A g \in SpecCandidates(t) :
                              Cardinality(Filled(t[g])) <= Cardinality(Filled(t[h]))
            /\ HeaderNotFound => SpecCandidates(t) = {}

\* C13, amended: when no candidate row both auto-resolves sku and price and has
\* a non-empty data row below it, and some candidate has a non-empty data row
\* below it, the result is, with autoDetected = false and no error, the
\* candidate with the most header cells among the candidates that have a
\* non-empty data row below them; the header-not-found failure is raised only
\* when no row with at least 2 non-empty cells has a non-empty data row below.
C13_MostHeaderCellsWithData ==
    (Parsed /\ OneTable) =>
        LET t == file.sheets[1]
        IN  /\ (WithData(t) # {} /\ \A h \in WithData(t) : ~Resolves(t, h)) =>
                  /\ IsTable
                  /\ ~Outcome.autoDetected
                  /\ \E h \in WithData(t) :
                        /\ Outcome.headers = SpecHeaders(t[h])
                        /\ Outcome.rows = SpecRows(t, h)
                        /\ \A g \in WithData(t) :
                              Cardinality(Filled(t[g])) <= Cardinality(Filled(t[h]))
            /\ HeaderNotFound => WithData(t) = {}

\* a fallback table whose header is not the first candidate in rank order and
\* has fewer cells than a candidate without data rows below it
C13_Witness ==
    /\ Parsed /\ OneTable /\ IsTable /\ ~Outcome.autoDetected
    /\ LET t == file.sheets[1]
       IN  /\ \E g \in SpecCandidates(t) : Cardinality(Filled(t[g])) > Len(Outcome.headers)
           /\ \E h \in WithData(t) :
                 /\ Outcome.headers = SpecHeaders(t[h])
                 /\ \E g \in WithData(t) : Outranks(t, g, h)

\* the sheets of the workbook that are tried: those with two rows or more
TriedSheets == {k \in 1..Len(file.sheets) : Len(file.sheets[k]) >= 2}

\* what findBestTable makes of sheet k
SheetResult(k) == findBestTable(file.sheets[k], FALSE)

\* C14: for a workbook, the result is that of the first sheet, in workbook
\* order, whose table auto-detects sku and price; if no sheet auto-detects, the
\* result is the fallback of a sheet with the most header columns, every sheet
\* having been tried.
C14_FirstAutoDetectedSheet ==
    (Parsed /\ file.ext = "xlsx" /\ TriedSheets # {}) =>
        LET R == [k \in TriedSheets |-> SheetResult(k)]
            Auto == {k \in TriedSheets : R[k].autoDetected}
        IN  /\ Auto # {} =>
                  \E k \in Auto : Outcome = R[k] /\ \A j \in Auto : k <= j
            /\ Auto = {} =>
                  \E k \in TriedSheets :
                     /\ Outcome = R[k]
                     /\ \A j \in TriedSheets : Len(R[j].headers) <= Len(R[k].headers)

\* a workbook of two sheets whose first sheet yields a fallback table only and
\* whose second sheet auto-detects
C14_Witness ==
    /\ Parsed /\ file.ext = "xlsx" /\ TriedSheets = {1, 2}
    /\ SheetResult(1).headers # <<>>
    /\ ~SheetResult(1).autoDetected
    /\ SheetResult(2).autoDetected
    /\ Outcome = SheetResult(2)

\* a workbook of two sheets neither of which auto-detects, whose first sheet
\* has the fallback with more header columns
C14_FallbackWitness ==
    /\ Parsed /\ file.ext = "xlsx" /\ TriedSheets = {1, 2}
    /\ ~SheetResult(1).autoDetected
    /\ ~SheetResult(2).autoDetected
    /\ Len(SheetResult(1).headers) > Len(SheetResult(2).headers)
    /\ SheetResult(2).headers # <<>>
    /\ Outcome = SheetResult(1)

\* the set of the headers of the returned table
HeaderSet == {Outcome.headers[k] : k \in 1..Len(Outcome.headers)}

\* C15: every table that parseFile returns without an error has at least 2
\* headers and every row has exactly the header set as its keys, a missing
\* trailing cell read as the empty text; a workbook none of whose sheets
\* yields a table ends in an error instead of a table.
C15_ParsedTableInvariant ==
    IsTable =>
        /\ Len(Outcome.headers) >= 2
        /\ \A k \in 1..Len(Outcome.rows) :
              /\ DOMAIN Outcome.rows[k] = HeaderSet
              /\ \A hd \in HeaderSet : Outcome.rows[k][hd] \in Seq(STRING)

\* the header row of the order form: row 15 of the sheet, counted from 0
OrderFormHeader == raw[16]

\* C16: for the order form, whose rows 0-14 are cover, customer, legend and
\* section-title rows and whose row 15 holds the column titles, followed by
\* the data rows and a totals footer, the header locator selects row 15 as
\* the header, auto-detected, with sku = "Item #" and price = "Price", and
\* reads the rows below it as the data.
C16_OrderFormHeader ==
    (Parsed /\ file = SampleFile) =>
        /\ IsTable
        /\ Outcome.autoDetected
        /\ Outcome.headers = OrderFormHeader
        /\ Outcome.headers =
              <<<<"I", "t", "e", "m", " ", "#">>, <<"U", "n", "i", "t", " ", "Q", "t", "y">>, <<"D", "e", "s", "c", "r", "i", "p", "t", "i", "o", "n">>, <<"P", "r", "i", "c", "e">>,
                <<"O", "r", "d", "e", "r", " ", "R", "u", "l", "e", " ", "C", "h", "e", "c", "k">>, <<"O", "r", "d", "e", "r", " ", "R", "u", "l", "e">>, <<"T", "o", "t", "a", "l", " ", "D", "u", "e">>,
                <<"S", "t", "a", "t", "u", "s">>, <<"N", "o", "t", "e", "s">>>>
        /\ detectColumns(Outcome.headers).sku = Some(<<"I", "t", "e", "m", " ", "#">>)
        /\ detectColumns(Outcome.headers).price = Some(<<"P", "r", "i", "c", "e">>)
        /\ Outcome.rows = SpecRows(raw, 16)
        /\ Outcome.rows[1][<<"I", "t", "e", "m", " ", "#">>] = <<"1", "1", "0", "8", "0">>

\* the order form has been parsed, and rows other than row 15 were candidates:
\* a legend row, a data row and a footer row have 2 non-empty cells or more
C16_Witness ==
    /\ Parsed /\ file = SampleFile /\ IsTable
    /\ Len(Outcome.rows) = Len(poItems) + 2
    /\ \E h \in SpecCandidates(raw) : h < 16
    /\ 17 \in SpecCandidates(raw)
    /\ Len(raw) \in SpecCandidates(raw)

----------------------------------------------------------------------------
(* The quantity role *)

\* the headers that name a quantity column
QtyHeaders == {i \in 1..Len(headers) : Lowered(headers[i]) = <<"q", "t", "y">>}

\* C19: detectColumns resolves the qty role as it resolves sku, price and
\* name: for headers that hold a quantity column, such as "SKU", "Price",
\* "Qty", the returned roles have qty set to that header.
C19_QtyRole ==
    (columns # <<>> /\ QtyHeaders # {}) =>
        /\ "qty" \in DOMAIN columns[1]
        /\ \E i \in QtyHeaders : columns[1].qty = Some(headers[i])

----------------------------------------------------------------------------
(* reconcile on the sample files, and the start of the state machine *)

\* the rows read from the order form: the non-empty rows below its header
\* row, which are the PO lines and the two footer lines
SampleRead == poItems \o SubSeq(rawFooter, 2, 3)

\* the PO table of the sample: the rows read from the order form, under the
\* roles sku = "Item #" (column 1), price = "Price" (column 4) and qty =
\* "Unit Qty" (column 2)
SamplePo ==
    [k \in 1..Len(SampleRead) |->
        PoRow(SampleRead[k][1], SampleRead[k][4], SampleRead[k][2])]

\* the ERP table of the sample: the export, under the roles sku = "Ordered
\* Item" and price = "Unit Price"
SampleErp == [k \in 1..Len(erpItems) |-> ErpRow(erpItems[k][1], erpItems[k][4])]

\* the tables of at most MaxRows rows together, or the tables of the sample,
\* and a tolerance
Init ==
    /\ \/ \E p \in 0..MaxRows : \E e \in 0..(MaxRows - p) :
             /\ poData \in [1..p -> PoRowPool]
             /\ erpData \in [1..e -> ErpRowPool]
       \/ /\ poData = SamplePo
          /\ erpData = SampleErp
    /\ tolerance \in Tolerances
    /\ clock = 0
    /\ erpMap = <<>>
    /\ results = <<>>
    /\ credit = <<>>
    /\ NoHeaders
    /\ NoFile
    /\ NoPct
    /\ NoPane

Spec == Init /\ [][Next]_vars

\* the sample has been reconciled at the default tolerance 0.02
SampleDone ==
    /\ Done
    /\ poData = SamplePo
    /\ erpData = SampleErp
    /\ tolerance = 20

\* the result rows of the PO SKU sku
RowsOfSku(sku) == {r \in RowSet : Rows[r].sku = sku}

\* the PO SKU sku has one result row, of this status and difference
SampleRow(sku, status, diff) ==
    /\ Cardinality(RowsOfSku(sku)) = 1
    /\ \A r \in RowsOfSku(sku) : Rows[r].status = status /\ Rows[r].diff = Num(diff)

\* the core SKUs of the sample whose prices differ
SampleDiffers == {<<"1", "1", "0", "8", "0">>, <<"1", "1", "0", "8", "1">>, <<"1", "1", "0", "9", "0">>, <<"1", "1", "0", "9", "9">>}

\* what the sample is expected to yield, the total exposure aside
SampleRows ==
    /\ Len(Rows) = Len(poItems)
    /\ \A k \in 1..Len(poItems) : RowsOfSku(poItems[k][1]) # {}
    /\ SampleRow(<<"1", "1", "0", "8", "0">>, "Exception", 510)
    /\ SampleRow(<<"1", "1", "0", "9", "0">>, "Exception", -1500)
    /\ SampleRow(<<"1", "1", "0", "9", "9">>, "Exception", 1000)
    /\ SampleRow(<<"1", "1", "0", "8", "1">>, "Tolerance", 10)
    /\ \A r \in RowSet :
          Rows[r].sku \notin SampleDiffers =>
             /\ Rows[r].status = "Match"
             /\ Rows[r].action = Action("OK (prefix match)")
    /\ Cardinality(RowsOf("Match")) = 16
    /\ RowsOf("Not in ERP") = {}
    /\ RowsOf("Not in PO") = {}

----------------------------------------------------------------------------
(* generateCreditNote *)

\* row.poQty || 1
CreditQty(row) ==
    IF IsNull(row.poQty) \/ Val(row.poQty) = 0 THEN One ELSE Val(row.poQty)

\* the rows generateCreditNote passes over: the ERP-only rows and the rows
\* with no usable price
CreditSkips(row) == row.status = "Not in PO" \/ IsNull(row.poPrice)

\* the original price of a credit line, taken from the ERP where there is one
OriginalPrice_Erp(row) == IF IsNull(row.erpPrice) THEN row.poPrice ELSE row.erpPrice

\* originalPrice: row.poPrice
OriginalPrice(row) == row.poPrice

\* the credit line of a row, its price and quantity given
CreditLine(row, price, qty) ==
    [sku |-> row.sku,
     name |-> row.name,
     qty |-> qty,
     originalPrice |-> Num(price),
     lineTotal |-> LineTotal(price, qty),
     creditAmount |-> round(-LineTotal(price, qty))]

\* creditRows.push(...) and totalCredit = round(totalCredit + creditAmount)
CreditPush(acc, line) ==
    [creditRows |-> Append(acc.creditRows, line),
     totalCredit |-> round(acc.totalCredit + line.creditAmount)]

\* one iteration of the loop over results.rows
CreditStep(acc, row) ==
    IF CreditSkips(row) THEN acc
    ELSE CreditPush(acc, CreditLine(row, Val(OriginalPrice(row)), CreditQty(row)))

RECURSIVE CreditFrom(_, _, _)
CreditFrom(rows, i, acc) ==
    IF i > Len(rows) THEN acc
    ELSE CreditFrom(rows, i + 1, CreditStep(acc, rows[i]))

\* the value generateCreditNote returns, the loop done
CreditNote(acc) ==
    [creditRows |-> acc.creditRows,
     totals |-> [lineCount |-> Len(acc.creditRows), totalCredit |-> acc.totalCredit]]

generateCreditNote(res) ==
    CreditNote(CreditFrom(res.rows, 1, [creditRows |-> <<>>, totalCredit |-> 0]))

\* the credit note is generated from the results of the last reconcile
GenerateCreditNote ==
    /\ results # <<>>
    /\ credit' = Some(generateCreditNote(results[1]))
    /\ UNCHANGED <<poData, erpData, tolerance, clock, erpMap, results,
                   headers, columns, file, parsed, pct, pane>>

NextCredit == Reconcile \/ GenerateCreditNote

SpecCredit == Init /\ [][NextCredit]_vars

\* a credit note has been generated
Credited == Done /\ credit # <<>>

CreditRows == credit[1].creditRows

\* the result rows that stand for a PO line
PoLines == {r \in RowSet : Rows[r].status # "Not in PO"}

\* the result rows that stand for a PO line and have a PO price
PricedPoLines == {r \in PoLines : Rows[r].poPrice # Null}

\* the k-th row, in result order, of a set of result rows
NthOf(R, k) == CHOOSE r \in R : Cardinality({q \in R : q <= r}) = k

\* a price times a quantity, both in thousandths, to the nearest cent
SpecProduct(price, qty) ==
    IF (price * qty) % 10000 >= 5000
    THEN 10 * ((price * qty) \div 10000 + 1)
    ELSE 10 * ((price * qty) \div 10000)

RECURSIVE SumCredits(_)
SumCredits(k) == IF k = 0 THEN 0 ELSE SumCredits(k - 1) + CreditRows[k].creditAmount

\* the credit lines are, in order, those of the result rows R: each at the
\* PO price and the PO quantity of its row, its amount the negated rounded
\* product; the totals count the lines and sum their amounts
CreditLinesOf(R) ==
    /\ Len(CreditRows) = Cardinality(R)
    /\ \A k \in 1..Len(CreditRows) :
          /\ CreditRows[k].sku = Rows[NthOf(R, k)].sku
          /\ CreditRows[k].originalPrice = Rows[NthOf(R, k)].poPrice
          /\ CreditRows[k].qty = Val(Rows[NthOf(R, k)].poQty)
          /\ CreditRows[k].creditAmount =
                -SpecProduct(Val(Rows[NthOf(R, k)].poPrice), Val(Rows[NthOf(R, k)].poQty))
    /\ credit[1].totals.lineCount = Len(CreditRows)
    /\ credit[1].totals.totalCredit = round(SumCredits(Len(CreditRows)))

----------------------------------------------------------------------------
(* The summary counters *)

\* C20: the summary counters agree with the rows: matches is the number of
\* Match rows, tolerances the number of Tolerance rows, warnings the number
\* of Warning rows, and exceptions the number of Exception rows plus the
\* number of "Not in ERP" rows; a "Not in PO" row adds to no counter.
C20_CountersAgree ==
    Done =>
        /\ Sum.matches = Cardinality(RowsOf("Match"))
        /\ Sum.tolerances = Cardinality(RowsOf("Tolerance"))
        /\ Sum.warnings = Cardinality(RowsOf("Warning"))
        /\ Sum.exceptions =
              Cardinality(RowsOf("Exception")) + Cardinality(RowsOf("Not in ERP"))

\* results with an Exception row, a "Not in ERP" row and a "Not in PO" row
C20_Witness ==
    /\ Done
    /\ RowsOf("Exception") # {}
    /\ RowsOf("Not in ERP") # {}
    /\ RowsOf("Not in PO") # {}
    /\ Sum.exceptions = 2

----------------------------------------------------------------------------
(* Duplicate ERP rows *)

\* the ERP rows of key k
ErpRowsOf(k) == {j \in ErpIdx : ErpNorm(j) = k}

\* the last ERP row of key k
LastErpRow(k) == CHOOSE j \in ErpRowsOf(k) : \A h \in ErpRowsOf(k) : h <= j

\* the entries of the ERP index of key k
EntriesOf(k) == {e \in 1..Len(erpMap) : erpMap[e].sku = k}

\* the normalized ERP SKUs that occur in several ERP rows
RepeatedErpKeys == {k \in ErpKeys : Cardinality(ErpRowsOf(k)) > 1}

\* C21: when a normalized SKU occurs in several ERP rows, the ERP index holds
\* one entry for it, which carries the last such row and its price; every PO
\* row matched to that SKU is compared against the price of that last row;
\* and the sweep emits at most one "Not in PO" row for it.
C21_LastErpRowWins ==
    Done =>
        \A k \in RepeatedErpKeys :
            /\ Cardinality(EntriesOf(k)) = 1
            /\ \A e \in EntriesOf(k) :
                  /\ erpMap[e].originalRow = erpData[LastErpRow(k)]
                  /\ erpMap[e].price = parseNumber(erpData[LastErpRow(k)][erpColumns.price])
            /\ \A i \in PoIdx :
                  MatchOf(i) = {k} =>
                     \A r \in RowsFor(i) :
                        Rows[r].erpPrice = parseNumber(erpData[LastErpRow(k)][erpColumns.price])
            /\ Cardinality({r \in RowsOf("Not in PO") : normalizeSku(Rows[r].sku) = k}) <= 1

\* an ERP SKU of two rows with different prices, the last one numeric, that
\* a PO row was compared against
C21_Witness ==
    /\ Done
    /\ \E k \in RepeatedErpKeys :
          /\ \E j \in ErpRowsOf(k) :
                parseNumber(erpData[j][erpColumns.price])
                   # parseNumber(erpData[LastErpRow(k)][erpColumns.price])
          /\ parseNumber(erpData[LastErpRow(k)][erpColumns.price]) # Null
          /\ \E i \in PoIdx : MatchOf(i) = {k} /\ RowsFor(i) # {}

\* an ERP SKU of two rows that no PO row matches: one "Not in PO" row
C21_SweepWitness ==
    /\ Done
    /\ \E k \in RepeatedErpKeys :
          Cardinality({r \in RowsOf("Not in PO") : normalizeSku(Rows[r].sku) = k}) = 1

----------------------------------------------------------------------------
(* diff and pctDiff of two numeric prices *)

\* the prices compared: 0, 0.01, 3.33, 9.99, 10.00, 10.004, 12.99, 13.50 and
\* a negative price
PctPrices == {-5000, 0, 10, 3330, 9990, 10000, 10004, 12990, 13500}

\* a PO price and the ERP price it is matched to
InitPct ==
    /\ \E po \in PctPrices : \E erp \in PctPrices :
          pct = <<[poPrice |-> po, erpPrice |-> erp, out |-> <<>>]>>
    /\ NoTables
    /\ NoHeaders
    /\ NoFile
    /\ NoPane

\* diff and pctDiff, the diff given
DiffAndPct(diff, erpPrice) == [diff |-> diff, pctDiff |-> PctDiff(diff, erpPrice)]

\* const diff = round(poPrice - oracle.price); const pctDiff = ...
ComparePrices ==
    /\ pct # <<>>
    /\ pct[1].out = <<>>
    /\ pct' = <<[pct[1] EXCEPT
                   !.out = Some(DiffAndPct(round(pct[1].poPrice - pct[1].erpPrice),
                                           pct[1].erpPrice))]>>
    /\ UNCHANGED <<poData, erpData, tolerance, clock, erpMap, results, credit,
                   headers, columns, file, parsed, pane>>

NextPct == ComparePrices

SpecPct == InitPct /\ [][NextPct]_vars

\* the two prices have been compared
Compared == pct # <<>> /\ pct[1].out # <<>>

\* v is the quotient num / den rounded to the nearest integer, halves up
IsNearest(v, num, den) ==
    IF den > 0
    THEN 2 * v * den <= 2 * num + den /\ 2 * num + den < 2 * (v + 1) * den
    ELSE 2 * v * den >= 2 * num + den /\ 2 * num + den > 2 * (v + 1) * den

\* what pctDiff is for an ERP price of 0: 100 percent, or 0
ZeroPricePct(diff) == IF diff # 0 THEN 10000 ELSE 0

\* C22 as stated: pctDiff is the whole-number percent round(diff / erpPrice x
\* 100) when erpPrice is not 0, and when erpPrice is 0 it is 100 if diff is
\* not 0 and 0 otherwise.
C22_WholePercent ==
    Compared =>
        IF pct[1].erpPrice # 0
        THEN \E w \in -100000..100000 :
                /\ pct[1].out[1].pctDiff = 100 * w
                /\ IsNearest(w, pct[1].out[1].diff * 100, pct[1].erpPrice)
        ELSE pct[1].out[1].pctDiff = ZeroPricePct(pct[1].out[1].diff)

\* C22, amended: pctDiff is the percent diff / erpPrice x 100 rounded to two
\* decimals (to a hundredth of a percent) when erpPrice is not 0, and when
\* erpPrice is 0 it is 100 if diff is not 0 and 0 otherwise.
C22_PercentToTwoDecimals ==
    Compared =>
        IF pct[1].erpPrice # 0
        THEN IsNearest(pct[1].out[1].pctDiff, pct[1].out[1].diff * 10000,
                       pct[1].erpPrice)
        ELSE pct[1].out[1].pctDiff = ZeroPricePct(pct[1].out[1].diff)

\* 13.50 against 12.99: a diff of 0.51 and a pctDiff of 3.93 percent
C22_Witness ==
    /\ Compared
    /\ pct[1].poPrice = 13500
    /\ pct[1].erpPrice = 12990
    /\ pct[1].out[1] = [diff |-> 510, pctDiff |-> 393]

\* a price against an ERP price of 0: 100 percent
C22_ZeroWitness ==
    /\ Compared
    /\ pct[1].erpPrice = 0
    /\ pct[1].out[1].diff # 0
    /\ pct[1].out[1].pctDiff = 10000

----------------------------------------------------------------------------
(* A match whose ERP price is not numeric *)

\* the PO rows with a numeric price that are matched to an ERP SKU whose
\* price is not numeric
MatchedWithoutErpPrice ==
    {i \in PoIdx : \E k \in MatchOf(i) : ErpPriceOf(k) = Null}

\* C23: a PO row with a numeric price that matches, exactly or by a single
\* prefix, an ERP entry whose price is not numeric yields a Warning row with
\* null erpPrice and diff; it adds to the warnings counter only; and the ERP
\* entry counts as matched, so that no "Not in PO" row reports it.
C23_NonNumericErpPrice ==
    Done =>
        /\ \A i \in MatchedWithoutErpPrice :
              /\ RowsFor(i) # {}
              /\ \A r \in RowsFor(i) :
                    /\ Rows[r].status = "Warning"
                    /\ Rows[r].action = Action("Non-numeric ERP price")
                    /\ Rows[r].erpPrice = Null
                    /\ Rows[r].diff = Null
                    /\ Rows[r].pctDiff = Null
              /\ \A k \in MatchOf(i) :
                    \A r \in RowsOf("Not in PO") : normalizeSku(Rows[r].sku) # k
        /\ Sum.warnings = Cardinality(RowsOf("Warning"))
        /\ Sum.matches + Sum.tolerances + Sum.exceptions =
              Cardinality(RowSet \ (RowsOf("Warning") \cup RowsOf("Not in PO")))
        /\ Sum.exposure = round(SumAbsDiff(RowsOf("Exception")))

\* a PO row matched by prefix to an ERP SKU whose price is not numeric, and
\* another matched exactly
C23_Witness ==
    /\ Done
    /\ \E i \in MatchedWithoutErpPrice : PoNorm(i) \notin ErpKeys /\ RowsFor(i) # {}
    /\ \E i \in MatchedWithoutErpPrice : PoNorm(i) \in ErpKeys /\ RowsFor(i) # {}

----------------------------------------------------------------------------
(* The ERP SKU of a prefix match *)

\* the PO rows that are matched by a single prefix
PrefixMatched == {i \in PoIdx : MatchOf(i) # {} /\ PoNorm(i) \notin ErpKeys}

\* the SKU text of the first ERP row of key k
ErpSkuText(k) ==
    erpData[CHOOSE j \in ErpRowsOf(k) : \A h \in ErpRowsOf(k) : j <= h][erpColumns.sku]

\* C24: an output row carries a non-null erpSku, the original SKU text of the
\* matched ERP row, exactly when it was produced through a prefix match,
\* whatever its status (Match, Tolerance, Exception or the Warning of a
\* non-numeric ERP price); a row of an exact match or without a match has none.
C24_ErpSkuMarksPrefixMatch ==
    Done =>
        /\ \A i \in PoIdx : \A r \in RowsFor(i) :
              IF i \in PrefixMatched
              THEN \E k \in MatchOf(i) : Rows[r].erpSku = ErpSkuText(k)
              ELSE Rows[r].erpSku = Null
        /\ \A r \in RowsOf("Not in PO") : Rows[r].erpSku = Null

----------------------------------------------------------------------------
(* The duplicate flag *)

\* the PO rows whose normalized SKU occurs more than once in the PO
RepeatedInPo(i) == Cardinality({j \in PoIdx : PoNorm(j) = PoNorm(i)}) > 1

\* the PO rows that a duplicate affects: the SKU is repeated in the PO, or the
\* ERP SKU the row is matched to is repeated in the ERP table
AffectedByDuplicate(i) ==
    RepeatedInPo(i) \/ \E k \in MatchOf(i) : k \in RepeatedErpKeys

\* C25: every output row affected by a duplicate has duplicate = true: a
\* PO-side row when its normalized SKU occurs more than once in the PO or when
\* the ERP SKU it was matched to, exactly or by prefix, occurs more than once
\* in the ERP table; a "Not in PO" row when its ERP SKU occurs more than once.
C25_DuplicateFlag ==
    Done =>
        /\ \A i \in PoIdx : \A r \in RowsFor(i) :
              AffectedByDuplicate(i) => Rows[r].duplicate
        /\ \A r \in RowsOf("Not in PO") :
              normalizeSku(Rows[r].sku) \in RepeatedErpKeys => Rows[r].duplicate

----------------------------------------------------------------------------
(* The SKUs of the "Not in PO" rows *)

\* the normalized SKUs of the PO rows
PoKeys == {PoNorm(i) : i \in PoIdx}

\* C26: every "Not in PO" row names an ERP SKU whose normalized form is not
\* the normalized SKU of any PO row, the PO rows that became a Warning for a
\* non-numeric price included.
C26_NotInPoIsNotInPo ==
    Done => \A r \in RowsOf("Not in PO") : normalizeSku(Rows[r].sku) \notin PoKeys

----------------------------------------------------------------------------
(* The sku and the price column of one header list *)

\* the roles detected for the header list
Detected == columns[1]

\* both roles a reconciliation needs are resolved
BothResolved == columns # <<>> /\ Detected.sku # Null /\ Detected.price # Null

\* C30: whenever both the sku and the price roles resolve for a header list,
\* they resolve to two different headers.
C30_SkuAndPriceDiffer == BothResolved => Detected.sku # Detected.price

----------------------------------------------------------------------------
(* The task pane (taskpane.js) and the ReconcilePO agent action
   (commands.js).  pane holds the task pane's state object, the controls the
   handlers read and write, the uploads whose parse is pending, and the
   agent's state.  Tolerances are in thousandths. *)

\* tolerance: 0.02, the default of the state object and of both entry points
DefaultTolerance == 20

\* the most uploads whose parse is pending at one time
MaxPending == 2

\* one row object over two headers
PaneRow(h1, c1, h2, c2) == [h \in {h1, h2} |-> IF h = h1 THEN c1 ELSE c2]

\* The PO files a user picks, by name.
PoFiles == {"a.csv", "b.csv", "c.csv"}

\* parseFile(file) for the files of the model: a.csv holds a table whose
\* columns resolve, b.csv a table that needs manual column selection, and
\* c.csv has no header row.
ParseOutcome(f) ==
    IF f = "a.csv"
    THEN Table(<<<<"S", "K", "U">>, <<"P", "r", "i", "c", "e">>>>,
               <<PaneRow(<<"S", "K", "U">>, <<"1">>, <<"P", "r", "i", "c", "e">>, <<"1", "0", ".", "0", "0">>)>>, TRUE)
    ELSE IF f = "b.csv"
    THEN Table(<<<<"R", "e", "f">>, <<"V", "a", "l", "u", "e">>>>,
               <<PaneRow(<<"R", "e", "f">>, <<"1">>, <<"V", "a", "l", "u", "e">>, <<"1", "0", ".", "0", "0">>),
                 PaneRow(<<"R", "e", "f">>, <<"2">>, <<"V", "a", "l", "u", "e">>, <<"5", ".", "0", "0">>)>>, FALSE)
    ELSE Error("Could not find a valid header row in the file.")

\* The values of the ranges a user selects: a table whose columns resolve, a
\* table that needs manual column selection, and a header row alone.
RangePool ==
    {<<<<<<" ", "S", "K", "U">>, <<"U", "n", "i", "t", " ", "P", "r", "i", "c", "e">>>>, <<<<"1">>, <<"9", ".", "9", "9">>>>>>,
     <<<<<<"C", "o", "d", "e", " ", "N", "o">>, <<"V", "a", "l">>>>, <<<<"1">>, <<"9", ".", "9", "9">>>>>>,
     <<<<<<"S", "K", "U">>, <<"U", "n", "i", "t", " ", "P", "r", "i", "c", "e">>>>>>}

\* The texts of the tolerance input: zero, a positive number, and no number.
ToleranceInputs == {<<"0">>, <<"0", ".", "0", "5">>, <<>>}

\* The messages of the agent action, by the tolerance they carry: none, 0 and
\* 0.05.
Messages == {Null, Num(0), Num(50)}

\* The state object of the task pane as the module creates it, the controls
\* as they are before any handler has run (nothing typed, nothing shown, the
\* Reconcile button disabled), and the agent's state.
PaneStart ==
    [poData |-> Null, poColumns |-> Null, erpData |-> Null, erpColumns |-> Null,
     tolerance |-> DefaultTolerance, results |-> Null, poFilename |-> "",
     reconcileBtnDisabled |-> TRUE,
     manualColumnsPo |-> Null, manualColumnsErp |-> Null,
     toleranceInput |-> <<>>,
     parsing |-> {}, reconciling |-> FALSE,
     agentResults |-> Null, agentPoFilename |-> ""]

InitPane ==
    /\ pane = Some(PaneStart)
    /\ NoTables
    /\ NoHeaders
    /\ NoFile
    /\ NoPct

\* a handler leaves the task pane in the state st
Leaves(st) ==
    /\ pane' = Some(st)
    /\ UNCHANGED <<poData, erpData, tolerance, clock, erpMap, results, credit,
                   headers, columns, file, parsed, pct>>

\* updateReconcileButton()
updateReconcileButton(st) ==
    [st EXCEPT !.reconcileBtnDisabled =
        ~(st.poData # Null /\ st.poColumns # Null
          /\ st.erpData # Null /\ st.erpColumns # Null)]

\* !columns.sku || !columns.price
Unresolved(cols) == cols.sku = Null \/ cols.price = Null

\* handleFileUpload up to the await: the file name is stored and the parse
\* of the file starts
FileChosen(f) ==
    /\ pane # <<>>
    /\ f \notin pane[1].parsing
    /\ Cardinality(pane[1].parsing) < MaxPending
    /\ Leaves([pane[1] EXCEPT !.poFilename = f, !.parsing = @ \cup {f}])

\* the catch block of handleFileUpload
UploadFailed(st) == [st EXCEPT !.poData = Null, !.poColumns = Null]

\* handleFileUpload after detectColumns, st.poData being the parsed table
UploadDetected(st, cols) ==
    updateReconcileButton(
        IF Unresolved(cols)
        THEN [st EXCEPT !.manualColumnsPo = Some(Val(st.poData).headers)]
        ELSE [st EXCEPT !.poColumns = Some(cols), !.manualColumnsPo = Null])

\* handleFileUpload from the point where parseFile has settled with out
UploadSettled(st, out) ==
    IF out.kind = "error" THEN UploadFailed(st)
    ELSE UploadDetected([st EXCEPT !.poData = Some(out)],
                        detectColumns(out.headers))

\* handleFileUpload after the await: the parse of f has settled
FileParsed(f) ==
    /\ pane # <<>>
    /\ f \in pane[1].parsing
    /\ Leaves(UploadSettled([pane[1] EXCEPT !.parsing = @ \ {f}],
                            ParseOutcome(f)))

\* values[0].map((h) => String(h).trim())
RECURSIVE TrimAllFrom(_, _, _)
TrimAllFrom(cells, i, acc) ==
    IF i > Len(cells) THEN acc
    ELSE TrimAllFrom(cells, i + 1, Append(acc, Trim(cells[i])))

\* one row object of a range: obj[h] = row[i] for the headers in order, a
\* later cell replacing an earlier one under the same header
RECURSIVE RangeRowFrom(_, _, _, _)
RangeRowFrom(hdrs, row, i, obj) ==
    IF i > Len(hdrs) THEN obj
    ELSE RangeRowFrom(hdrs, row, i + 1,
             [h \in DOMAIN obj \cup {hdrs[i]} |->
                 IF h = hdrs[i] THEN CellAt(row, i) ELSE obj[h]])

\* values.slice(1).map(...)
RECURSIVE RangeRowsFrom(_, _, _, _)
RangeRowsFrom(values, hdrs, i, rows) ==
    IF i > Len(values) THEN rows
    ELSE RangeRowsFrom(values, hdrs, i + 1,
             Append(rows, RangeRowFrom(hdrs, values[i], 1, <<>>)))

\* the catch block of handleSelectRange
RangeFailed(st) == [st EXCEPT !.erpData = Null, !.erpColumns = Null]

\* handleSelectRange after detectColumns, st.erpData being the range read
RangeDetected(st, cols) ==
    updateReconcileButton(
        IF Unresolved(cols)
        THEN [st EXCEPT !.manualColumnsErp = Some(Val(st.erpData).headers)]
        ELSE [st EXCEPT !.erpColumns = Some(cols), !.manualColumnsErp = Null])

\* handleSelectRange once the headers of the range are known
RangeRead(st, values, hdrs) ==
    RangeDetected(
        [st EXCEPT !.erpData =
            Some([headers |-> hdrs, rows |-> RangeRowsFrom(values, hdrs, 2, <<>>)])],
        detectColumns(hdrs))

\* handleSelectRange from the point where the values of the range are known
RangeSettled(st, values) ==
    IF Len(values) < 2 THEN RangeFailed(st)
    ELSE RangeRead(st, values, TrimAllFrom(values[1], 1, <<>>))

\* handleSelectRange: the state is first touched after the range has been
\* read, and then without a further await
handleSelectRange(values) ==
    /\ pane # <<>>
    /\ Leaves(RangeSettled(pane[1], values))

\* the columns object of a manual selection
ManualColumns(sku, price) ==
    [sku |-> Some(sku), price |-> Some(price), name |-> Null, qty |-> Null]

\* applyManualColumns("po") with both columns selected: the columns are
\* stored, then the status line reads state.poData.rows, which throws when no
\* table is held
ApplyPo(st, cols) ==
    IF st.poData = Null THEN [st EXCEPT !.poColumns = Some(cols)]
    ELSE updateReconcileButton(
             [st EXCEPT !.poColumns = Some(cols), !.manualColumnsPo = Null])

\* applyManualColumns("erp") with both columns selected
ApplyErp(st, cols) ==
    IF st.erpData = Null THEN [st EXCEPT !.erpColumns = Some(cols)]
    ELSE updateReconcileButton(
             [st EXCEPT !.erpColumns = Some(cols), !.manualColumnsErp = Null])

\* applyManualColumns(source) with the values sku and price of the two
\* selects, <<>> being the "Select" option
Applied(st, source, sku, price) ==
    IF sku = <<>> \/ price = <<>> THEN st
    ELSE IF source = "erp" THEN ApplyErp(st, ManualColumns(sku, price))
    ELSE ApplyPo(st, ManualColumns(sku, price))

\* the options of the selects of a manual selection that is shown
Options(shown) == {<<>>} \cup {shown[1][i] : i \in 1..Len(shown[1])}

\* applyManualColumns("po"): the Apply button of the PO selection, which is
\* there while the selection is shown; the optional roles stay at "None"
applyManualColumnsPo(sku, price) ==
    /\ pane # <<>>
    /\ pane[1].manualColumnsPo # Null
    /\ sku \in Options(pane[1].manualColumnsPo)
    /\ price \in Options(pane[1].manualColumnsPo)
    /\ Leaves(Applied(pane[1], "po", sku, price))

\* applyManualColumns("erp")
applyManualColumnsErp(sku, price) ==
    /\ pane # <<>>
    /\ pane[1].manualColumnsErp # Null
    /\ sku \in Options(pane[1].manualColumnsErp)
    /\ price \in Options(pane[1].manualColumnsErp)
    /\ Leaves(Applied(pane[1], "erp", sku, price))

\* params.tolerance ?? 0.02
OrDefault_Nullish(num) == IF IsNull(num) THEN DefaultTolerance ELSE Val(num)

\* parseFloat(els.toleranceInput.value) || 0.02: NaN and 0 are falsy
OrDefault(num) ==
    IF IsNull(num) \/ Val(num) = 0 THEN DefaultTolerance ELSE Val(num)

\* the change listener of the tolerance input
ToleranceChanged(text) ==
    /\ pane # <<>>
    /\ text # pane[1].toleranceInput
    /\ Leaves([pane[1] EXCEPT !.toleranceInput = text,
                              !.tolerance = OrDefault(parseFloat(text))])

\* a call of reconcile, kept as the tolerance it hands over
Call(tol) == [tolerance |-> tol]

\* reconcile reads poData.rows, erpData.rows and the columns' sku: it throws
\* when one of them is null
CallThrows(st) ==
    st.poData = Null \/ st.poColumns = Null
    \/ st.erpData = Null \/ st.erpColumns = Null

\* handleReconcile after the tolerance has been read: state.results holds the
\* outcome of reconcile on the tables and columns of the state
Reconciled(st) ==
    IF CallThrows(st) THEN st
    ELSE [st EXCEPT !.results = Some(Call(st.tolerance))]

\* handleReconcile up to the await of the results sheet: a click on the
\* enabled button
handleReconcile ==
    /\ pane # <<>>
    /\ ~pane[1].reconcileBtnDisabled
    /\ ~pane[1].reconciling
    /\ Leaves(Reconciled(
           [pane[1] EXCEPT !.reconcileBtnDisabled = TRUE,
                           !.reconciling = TRUE,
                           !.tolerance = OrDefault(parseFloat(pane[1].toleranceInput))]))

\* the finally block of handleReconcile
ReconcileSettled ==
    /\ pane # <<>>
    /\ pane[1].reconciling
    /\ Leaves([pane[1] EXCEPT !.reconcileBtnDisabled = FALSE,
                              !.reconciling = FALSE])

\* values[0].map((h) => String(h).trim()).filter(Boolean)
AgentHeaders(values) ==
    SelectSeq(TrimAllFrom(values[1], 1, <<>>), LAMBDA h : h # <<>>)

\* handleReconcilePO throws on a range of less than two rows and on headers
\* whose sku or price column is not detected
AgentThrows(values) ==
    Len(values) < 2 \/ Unresolved(detectColumns(AgentHeaders(values)))

\* handleReconcilePO(message), selection being the values of the selected
\* range and sheet those of the PO sheet
handleReconcilePO(message, selection, sheet) ==
    /\ pane # <<>>
    /\ IF AgentThrows(selection) THEN UNCHANGED vars
       ELSE IF AgentThrows(sheet)
       THEN UNCHANGED vars
       ELSE Leaves([pane[1] EXCEPT
                !.agentPoFilename = "PO",
                !.agentResults =
                    Some(Call(OrDefault_Nullish(message)))])

\* the values a select of a manual selection can hold
HeaderTexts ==
    {<<>>} \cup UNION {Options(Some(ParseOutcome(f).headers)) :
                         f \in {g \in PoFiles : ParseOutcome(g).kind = "table"}}
           \cup UNION {Options(Some(TrimAllFrom(values[1], 1, <<>>))) : values \in RangePool}

\* the task pane while files and ranges are loaded and reconciled, the
\* tolerance left as it is
NextPane ==
    \/ \E f \in PoFiles : FileChosen(f)
    \/ \E f \in PoFiles : FileParsed(f)
    \/ \E values \in RangePool : handleSelectRange(values)
    \/ \E sku \in HeaderTexts, price \in HeaderTexts : applyManualColumnsPo(sku, price)
    \/ \E sku \in HeaderTexts, price \in HeaderTexts : applyManualColumnsErp(sku, price)
    \/ handleReconcile
    \/ ReconcileSettled

SpecPane == InitPane /\ [][NextPane]_vars

\* the files and the ranges whose columns resolve
ResolvingFiles ==
    {f \in PoFiles : /\ ParseOutcome(f).kind = "table"
                     /\ ~Unresolved(detectColumns(ParseOutcome(f).headers))}

ResolvingRanges == {values \in RangePool : ~AgentThrows(values)}

\* the task pane and the agent action while tables whose columns resolve are
\* loaded and reconciled under the tolerances a user enters
NextTolerance ==
    \/ \E f \in ResolvingFiles : FileChosen(f)
    \/ \E f \in ResolvingFiles : FileParsed(f)
    \/ \E values \in ResolvingRanges : handleSelectRange(values)
    \/ \E text \in ToleranceInputs : ToleranceChanged(text)
    \/ handleReconcile
    \/ ReconcileSettled
    \/ \E message \in Messages, selection \in RangePool, sheet \in RangePool :
           handleReconcilePO(message, selection, sheet)

SpecTolerance == InitPane /\ [][NextTolerance]_vars

----------------------------------------------------------------------------
(* The claims about the task pane *)

\* the state object and the controls of the task pane
Pane == pane[1]

\* the headers of a table that is held
HeadersOf(data) == {Val(data).headers[i] : i \in 1..Len(Val(data).headers)}

\* the columns name a sku and a price header of the table that is held
ResolvedAgainst(cols, data) ==
    /\ Val(cols).sku # Null
    /\ Val(cols).price # Null
    /\ Val(Val(cols).sku) \in HeadersOf(data)
    /\ Val(Val(cols).price) \in HeadersOf(data)

\* C27: whenever the Reconcile button is enabled, poData, poColumns, erpData
\* and erpColumns are all set, and poColumns and erpColumns name headers of
\* the poData and the erpData that are loaded, never those of a table loaded
\* before.
C27_EnabledMeansReady ==
    (pane # <<>> /\ ~Pane.reconcileBtnDisabled) =>
        /\ Pane.poData # Null
        /\ Pane.poColumns # Null
        /\ Pane.erpData # Null
        /\ Pane.erpColumns # Null
        /\ ResolvedAgainst(Pane.poColumns, Pane.poData)
        /\ ResolvedAgainst(Pane.erpColumns, Pane.erpData)

\* C28: when the parses of the uploads that were started have all completed,
\* in whatever order, state.poFilename names the file whose parsed table
\* state.poData holds.
C28_FilenameNamesTheTable ==
    (pane # <<>> /\ Pane.parsing = {} /\ Pane.poData # Null) =>
        Pane.poData = Some(ParseOutcome(Pane.poFilename))

\* the tolerance a text of the input stands for: the non-negative number
\* entered, the default when the text is no such number
Entered(text) ==
    IF IsNull(parseFloat(text)) \/ Val(parseFloat(text)) < 0
    THEN DefaultTolerance
    ELSE Val(parseFloat(text))

\* the tolerance a message of the agent action stands for
Supplied(message) == IF IsNull(message) THEN DefaultTolerance ELSE Val(message)

\* C29: the tolerance handed to reconcile is the non-negative value the user
\* entered, 0 included, and the default 0.02 only when no valid number is
\* supplied, from the task pane and from the ReconcilePO agent action alike.
C29_TolerancePassed ==
    [][/\ (handleReconcile /\ ~CallThrows(Pane)) =>
             pane'[1].results = Some(Call(Entered(Pane.toleranceInput)))
       /\ \A message \in Messages, selection \in RangePool, sheet \in RangePool :
             (handleReconcilePO(message, selection, sheet) /\ pane' # pane) =>
                 pane'[1].agentResults = Some(Call(Supplied(message)))]_vars

====
